---- MODULE Spec2Model ----
(***************************************************************************)
(* AlphaForge: the quality screening and scoring engine                    *)
(* (src/quality_filters/weschler_filters.py), the filing lookup it uses    *)
(* (src/sec_filings/edgar_processor.py) and the batch runner.              *)
(*                                                                         *)
(* Text is a sequence of atoms (words or characters); Python's substring   *)
(* test `a in b` is the contiguous-subsequence search Contains(b, a).      *)
(* A nullable value (SQL NULL, Python None, an empty result) is <<>>, a    *)
(* present value v is <<v>>.                                               *)
(***************************************************************************)
EXTENDS Integers, Sequences, FiniteSets, TLC

VARIABLES
    db,              \* the SQLite tables: companies, sec_filings, financial_statements, news
    config,          \* scoring_config and filter_config, read at construction
    pc,              \* position of the control flow
    batch,           \* locals of process_all_companies: companies, i, processed_count, error_count
    company_data,    \* local of apply_all_filters: the loaded snapshot (None or Some(row))
    filter_results,  \* local of apply_all_filters: the result under construction
    summary,         \* the value process_all_companies returned
    obs,             \* observations of the run: calls made, exceptions raised, values returned
    db_manager,      \* the shared DatabaseManager: its handle, the connections opened, the scoped blocks running
    rate_limiter     \* the RateLimiter: its request times, the clock, the calls that returned

vars == <<db, config, pc, batch, company_data, filter_results, summary, obs,
          db_manager, rate_limiter>>

\* the variables of the screening engine
screening_vars == <<db, config, pc, batch, company_data, filter_results, summary, obs>>

----------------------------------------------------------------------------
(* Bounds of the model *)

MaxCompanies == 3
MaxFaults == 1
MaxFlags == 3
MaxCalls == 2
MaxCorporateFlags == 2
MaxNews == 11
MaxOperations == 2
MaxRequests == 4

----------------------------------------------------------------------------
(* Option values and text *)

None == <<>>
Some(v) == <<v>>
IsNone(x) == x = <<>>
Val(x) == x[1]

\* Python `sub in s` on strings
Contains(s, sub) ==
    \E i \in 0..(Len(s) - Len(sub)) : SubSeq(s, i + 1, i + Len(sub)) = sub

\* Python `sep.join(parts)`
RECURSIVE Join(_, _)
Join(sep, parts) ==
    IF parts = <<>> THEN <<>>
    ELSE IF Len(parts) = 1 THEN parts[1]
    ELSE parts[1] \o sep \o Join(sep, Tail(parts))

----------------------------------------------------------------------------
(* Configuration: src/config.py *)

DefaultScoringConfig ==
    [sec_filing_penalty       |-> -20,
     fcf_penalty              |-> -10,
     operating_loss_penalty   |-> -8,
     high_debt_penalty        |-> -15,
     negative_equity_penalty  |-> -12,
     low_volume_penalty       |-> -5,
     otc_penalty              |-> -3,
     news_red_flag_penalty    |-> -7,
     corporate_action_penalty |-> -5]

\* net-debt/EBITDA is kept in hundredths: 5.0 is 500
DefaultFilterConfig ==
    [max_debt_to_ebitda                        |-> 500,
     min_trading_volume                        |-> 50000,
     fcf_negative_years_threshold              |-> 4,
     operating_income_negative_years_threshold |-> 4]

----------------------------------------------------------------------------
(* Score aggregator: _calculate_quality_score *)

SecFilingMarker == <<"No", "Recent", "SEC", "Filings">>
FcfMarker == <<"Persistent", "Negative", "FCF">>
OperatingLossMarker == <<"Persistent", "Operating", "Losses">>
HighDebtMarker == <<"High", "Debt", "Burden">>
NegativeEquityMarker == <<"Negative", "Shareholder", "Equity">>
LowVolumeMarker == <<"Low", "Trading", "Volume">>
OtcMarker == <<"OTC", "Exchange">>
NewsMarker == <<"News", "Red", "Flag">>
CorporateActionMarker == <<"Corporate", "Action">>

\* the if/elif chain of the loop body: the penalty added for one red flag
PenaltyIfChainMutant(scoring_config, red_flag) ==
    (IF Contains(red_flag, SecFilingMarker) THEN scoring_config.sec_filing_penalty ELSE 0)
    + (IF Contains(red_flag, FcfMarker) THEN scoring_config.fcf_penalty ELSE 0)
    + (IF Contains(red_flag, OperatingLossMarker) THEN scoring_config.operating_loss_penalty ELSE 0)
    + (IF Contains(red_flag, HighDebtMarker) THEN scoring_config.high_debt_penalty ELSE 0)
    + (IF Contains(red_flag, NegativeEquityMarker) THEN scoring_config.negative_equity_penalty ELSE 0)
    + (IF Contains(red_flag, LowVolumeMarker) THEN scoring_config.low_volume_penalty ELSE 0)
    + (IF Contains(red_flag, OtcMarker) THEN scoring_config.otc_penalty ELSE 0)
    + (IF Contains(red_flag, NewsMarker) THEN scoring_config.news_red_flag_penalty ELSE 0)
    + (IF Contains(red_flag, CorporateActionMarker) THEN scoring_config.corporate_action_penalty ELSE 0)

PenaltyFor(scoring_config, red_flag) ==
    IF Contains(red_flag, SecFilingMarker) THEN scoring_config.sec_filing_penalty
    ELSE IF Contains(red_flag, FcfMarker) THEN scoring_config.fcf_penalty
    ELSE IF Contains(red_flag, OperatingLossMarker) THEN scoring_config.operating_loss_penalty
    ELSE IF Contains(red_flag, HighDebtMarker) THEN scoring_config.high_debt_penalty
    ELSE IF Contains(red_flag, NegativeEquityMarker) THEN scoring_config.negative_equity_penalty
    ELSE IF Contains(red_flag, LowVolumeMarker) THEN scoring_config.low_volume_penalty
    ELSE IF Contains(red_flag, OtcMarker) THEN scoring_config.otc_penalty
    ELSE IF Contains(red_flag, NewsMarker) THEN scoring_config.news_red_flag_penalty
    ELSE IF Contains(red_flag, CorporateActionMarker) THEN scoring_config.corporate_action_penalty
    ELSE 0

\* the for loop over filter_results['red_flags'], base_score running
RECURSIVE ScoreLoop(_, _, _)
ScoreLoop(scoring_config, red_flags, base_score) ==
    IF red_flags = <<>> THEN base_score
    ELSE ScoreLoop(scoring_config, Tail(red_flags),
                   base_score + PenaltyFor(scoring_config, Head(red_flags)))

Max(a, b) == IF a >= b THEN a ELSE b

CalculateNoFloorMutant(scoring_config, results) ==
    ScoreLoop(scoring_config, results.red_flags, 100)

ScoreFromStoredMutant(scoring_config, results) ==
    Max(0, ScoreLoop(scoring_config, results.red_flags, results.quality_score))

\* the penalties subtracted from the base score instead of added
CalculateSubtractingMutant(scoring_config, results) ==
    Max(0, 100 - ScoreLoop(scoring_config, results.red_flags, 0))

calculate_quality_score(scoring_config, results) ==
    Max(0, ScoreLoop(scoring_config, results.red_flags, 100))

----------------------------------------------------------------------------
(* Python dict access *)

DictGet(d, k, default) == IF k \in DOMAIN d THEN d[k] ELSE default

\* d[k] = v
DictSet(d, k, v) == (k :> v) @@ d

Min(a, b) == IF a <= b THEN a ELSE b

\* the keys of a table (fiscal years, publication dates), ORDER BY key DESC LIMIT n
RECURSIVE KeysDescLimit(_, _)
KeysDescLimit(keys, n) ==
    IF n = 0 \/ keys = {} THEN <<>>
    ELSE LET y == CHOOSE m \in keys : \A k \in keys : k <= m
         IN  <<y>> \o KeysDescLimit(keys \ {y}, n - 1)

\* the statements of one kind, keyed by fiscal year, ORDER BY fiscal_year DESC LIMIT n
OrderDescLimit(table, n) ==
    LET years == KeysDescLimit(DOMAIN table, n)
    IN  [i \in 1..Len(years) |->
            [fiscal_year |-> years[i], statement_data |-> table[years[i]]]]

----------------------------------------------------------------------------
(* Filing lookup: EdgarProcessor.check_recent_filings *)

\* dates are day numbers; Today is the day of datetime.now()
Today == 1000

\* cutoff_date = datetime.now() - timedelta(days=18*30).  A filing date is a
\* midnight and now() is later in the day, so latest_date >= cutoff_date
\* holds exactly for the days after Today - 18*30.
OnOrAfterCutoff(latest_date) == latest_date > Today - 18 * 30

AllFalseFilingStatus ==
    [t \in {"10-K", "10-Q", "8-K", "DEF 14A"} |-> FALSE]

\* SELECT filing_type, MAX(filing_date) ... WHERE download_status = 'completed'
\* GROUP BY filing_type
LatestCompleted(rows) ==
    LET done == {r \in rows : r.download_status = "completed"}
        types == {r.filing_type : r \in done}
    IN  [t \in types |->
            CHOOSE d \in {r.filing_date : r \in {q \in done : q.filing_type = t}} :
                \A r \in {q \in done : q.filing_type = t} : r.filing_date <= d]

\* db_fails: the scoped database block raises; the except branch returns the
\* status as built so far, which is the all-False one.
check_recent_filings(rows, db_fails) ==
    IF db_fails THEN AllFalseFilingStatus
    ELSE LET latest == LatestCompleted(rows)
         IN  [t \in DOMAIN AllFalseFilingStatus |->
                 IF t \in DOMAIN latest THEN OnOrAfterCutoff(latest[t]) ELSE FALSE]

----------------------------------------------------------------------------
(* Rule evaluators.  Each takes the snapshot and the result under          *)
(* construction and gives the result it leaves behind.                     *)

RequiredFilingsWithProxyMutant == <<"10-K", "10-Q", "8-K", "DEF 14A">>

required_filings == <<"10-K", "10-Q", "8-K">>

\* the for loop building missing_filings
MissingFilings(filing_status) ==
    SelectSeq(required_filings, LAMBDA t : ~DictGet(filing_status, t, FALSE))

SecFilingRedFlag(missing_filings) ==
    SecFilingMarker \o <<":">> \o Join(<<",">>, [i \in 1..Len(missing_filings) |-> <<missing_filings[i]>>])

apply_sec_filing_filter(results, filing_status) ==
    LET missing_filings == MissingFilings(filing_status)
        flagged == IF missing_filings # <<>>
                   THEN [results EXCEPT !.red_flags = Append(@, SecFilingRedFlag(missing_filings)),
                                        !.disqualified = TRUE]
                   ELSE results
    IN  [flagged EXCEPT !.filter_details =
            DictSet(DictSet(@, "sec_filing_status", filing_status),
                    "missing_filings", missing_filings)]

----------------------------------------------------------------------------
(* Historical series: the _get_historical_* and _extract_* helpers.        *)
(* A stored statement is [valid |-> json parses, obj |-> the parsed dict]. *)

fcf_items == <<"Free Cash Flow", "FreeCashFlow", "Operating Cash Flow",
               "OperatingCashFlow", "Net Cash from Operations">>
operating_items == <<"Operating Income", "OperatingIncome", "EBIT",
                     "Operating Profit", "Income from Operations">>
debt_items == <<"Total Debt", "TotalDebt", "Long Term Debt", "Short Term Debt",
                "Total Liabilities">>
revenue_items == <<"Total Revenue", "TotalRevenue", "Revenue", "Net Sales", "Sales">>

\* for item in items: if item in statement_data: return float(...); return 0.0
RECURSIVE ExtractFirst(_, _)
ExtractFirst(items, statement_data) ==
    IF items = <<>> THEN 0
    ELSE IF Head(items) \in DOMAIN statement_data THEN statement_data[Head(items)]
    ELSE ExtractFirst(Tail(items), statement_data)

extract_fcf_from_statement(statement_data) == ExtractFirst(fcf_items, statement_data)
extract_operating_income_from_statement(statement_data) ==
    ExtractFirst(operating_items, statement_data)
extract_total_debt_from_statement(statement_data) == ExtractFirst(debt_items, statement_data)
extract_revenue_from_statement(statement_data) == ExtractFirst(revenue_items, statement_data)

\* rows whose JSON does not parse are skipped (continue)
ParsedRows(rows) == SelectSeq(rows, LAMBDA r : r.statement_data.valid)

get_historical_fcf_data(statements) ==
    LET rows == ParsedRows(OrderDescLimit(statements.cash_flow, 5))
    IN  [i \in 1..Len(rows) |->
            [fiscal_year |-> rows[i].fiscal_year,
             fcf |-> extract_fcf_from_statement(rows[i].statement_data.obj)]]

get_historical_operating_income_data(statements) ==
    LET rows == ParsedRows(OrderDescLimit(statements.income, 5))
    IN  [i \in 1..Len(rows) |->
            [fiscal_year |-> rows[i].fiscal_year,
             operating_income |->
                 extract_operating_income_from_statement(rows[i].statement_data.obj)]]

----------------------------------------------------------------------------
(* DatabaseManager as a scoped resource: connect() replaces the handle's   *)
(* connection and cursor by new open ones; disconnect() closes the cursor  *)
(* and then the connection the handle holds.  sqlite3 raises               *)
(* ProgrammingError when a cursor of an already closed connection is       *)
(* closed, which is what a second disconnect() of the same handle does.    *)

ClosedHandle == [has_cursor |-> FALSE, open |-> FALSE]
connect(handle) == [has_cursor |-> TRUE, open |-> TRUE]
DisconnectRaises(handle) == handle.has_cursor /\ ~handle.open
disconnect(handle) == [handle EXCEPT !.open = FALSE]

\* DatabaseManager.__init__: no connection, no cursor.  `connection` is the
\* index in `opened` of the connection self.connection refers to (0: None),
\* `opened` has one entry per connection sqlite3.connect created, TRUE while
\* it is open, `stack` holds the scoped blocks that are running, innermost
\* last, and `finished` the operations that returned to their caller.
NewDatabaseManager ==
    [handle |-> ClosedHandle, connection |-> 0, opened |-> <<>>, stack |-> <<>>,
     finished |-> <<>>]

\* _get_revenue_growth runs its own scoped block on the same manager and
\* leaves the handle disconnected
HandleAfterRevenueGrowth(handle) == disconnect(connect(handle))

\* _get_debt_growth_data: None with fewer than two balance sheets, None when
\* a statement does not parse, and, with two, the dict is built inside the
\* scoped block, whose __exit__ then disconnects the handle that
\* _get_revenue_growth already disconnected: the ProgrammingError is caught
\* by the except branch, which returns None.
get_debt_growth_data(statements) ==
    LET rows == OrderDescLimit(statements.balance_sheet, 2)
        inc == OrderDescLimit(statements.income, 2)
        handle == connect(ClosedHandle)
    IN  IF Len(rows) < 2 THEN None
        ELSE IF ~rows[1].statement_data.valid \/ ~rows[2].statement_data.valid THEN None
        ELSE LET current_debt == extract_total_debt_from_statement(rows[1].statement_data.obj)
                 previous_debt == extract_total_debt_from_statement(rows[2].statement_data.obj)
                 revenue_known == Len(inc) = 2 /\ inc[1].statement_data.valid
                                  /\ inc[2].statement_data.valid
                 current_revenue ==
                     IF revenue_known
                     THEN extract_revenue_from_statement(inc[1].statement_data.obj) ELSE 0
                 previous_revenue ==
                     IF revenue_known
                     THEN extract_revenue_from_statement(inc[2].statement_data.obj) ELSE 0
             IN  IF DisconnectRaises(HandleAfterRevenueGrowth(handle)) THEN None
                 ELSE Some([current_debt |-> current_debt,
                            previous_debt |-> previous_debt,
                            current_revenue |-> current_revenue,
                            previous_revenue |-> previous_revenue])

----------------------------------------------------------------------------
(* Rule evaluators 2..9.  XRaises(...) says that the body of evaluator X   *)
(* raises on this snapshot; each of these evaluators wraps its body in     *)
(* try/except, logs and returns.                                           *)

AddDetail(results, key, value) ==
    [results EXCEPT !.filter_details = DictSet(@, key, value)]

PrependRedFlagMutant(results, red_flag) ==
    [results EXCEPT !.red_flags = <<red_flag>> \o @]

AddRedFlag(results, red_flag) ==
    [results EXCEPT !.red_flags = Append(@, red_flag)]

CountNegative(values) == Cardinality({i \in 1..Len(values) : values[i] < 0})

\* fcf_data[-3:]
LastThree(seq) == SubSeq(seq, Max(1, Len(seq) - 2), Len(seq))

\* fcf_data[-5:] if len(fcf_data) >= 5 else fcf_data
LastFive(seq) == IF Len(seq) >= 5 THEN SubSeq(seq, Len(seq) - 4, Len(seq)) ELSE seq

PersistentFcfRedFlag(negative_years, total_years) ==
    FcfMarker \o <<":", ToString(negative_years), "/", ToString(total_years), "years">>

AcceleratingFcfRedFlag == <<"Accelerating", "Negative", "FCF", "Trend">>

FcfAboveThresholdMutant(results, fcf_data, threshold) ==
    IF fcf_data = <<>> THEN results
    ELSE LET negative_years == CountNegative([i \in 1..Len(fcf_data) |-> fcf_data[i].fcf])
             total_years == Len(fcf_data)
         IN  IF negative_years > threshold /\ total_years >= 5
             THEN AddRedFlag(results, PersistentFcfRedFlag(negative_years, total_years))
             ELSE results

apply_fcf_consistency_filter(results, fcf_data, threshold) ==
    IF fcf_data = <<>> THEN results
    ELSE LET values == [i \in 1..Len(fcf_data) |-> fcf_data[i].fcf]
             negative_years == CountNegative(values)
             total_years == Len(fcf_data)
             recent_fcf == LastThree(values)
             r1 == IF negative_years >= threshold /\ total_years >= 5
                   THEN AddRedFlag(results, PersistentFcfRedFlag(negative_years, total_years))
                   ELSE results
             r2 == IF Len(fcf_data) >= 3
                      /\ (\A i \in 1..Len(recent_fcf) : recent_fcf[i] < 0)
                      /\ recent_fcf[Len(recent_fcf)] < recent_fcf[1]
                   THEN AddRedFlag(r1, AcceleratingFcfRedFlag)
                   ELSE r1
         IN  AddDetail(r2, "fcf_analysis",
                       [negative_years |-> negative_years,
                        total_years |-> total_years,
                        recent_fcf |-> LastFive(fcf_data)])

OperatingLossRedFlag(negative_years, total_years) ==
    OperatingLossMarker \o <<":", ToString(negative_years), "/", ToString(total_years), "years">>

OperatingAboveThresholdMutant(results, operating_data, threshold) ==
    IF operating_data = <<>> THEN results
    ELSE LET values == [i \in 1..Len(operating_data) |-> operating_data[i].operating_income]
             negative_years == CountNegative(values)
             total_years == Len(operating_data)
             r1 == IF negative_years > threshold /\ total_years >= 5
                   THEN AddRedFlag(results, OperatingLossRedFlag(negative_years, total_years))
                   ELSE results
         IN  AddDetail(r1, "operating_income_analysis",
                       [negative_years |-> negative_years,
                        total_years |-> total_years,
                        recent_data |-> LastFive(operating_data)])

apply_operating_income_filter(results, operating_data, threshold) ==
    IF operating_data = <<>> THEN results
    ELSE LET values == [i \in 1..Len(operating_data) |-> operating_data[i].operating_income]
             negative_years == CountNegative(values)
             total_years == Len(operating_data)
             r1 == IF negative_years >= threshold /\ total_years >= 5
                   THEN AddRedFlag(results, OperatingLossRedFlag(negative_years, total_years))
                   ELSE results
         IN  AddDetail(r1, "operating_income_analysis",
                       [negative_years |-> negative_years,
                        total_years |-> total_years,
                        recent_data |-> LastFive(operating_data)])

\* f"{x:.2f}" of a value kept in hundredths
Format2f(hundredths) ==
    <<ToString(hundredths \div 100), ".",
      ToString((hundredths % 100) \div 10), ToString(hundredths % 10)>>

HighDebtRedFlag(net_debt_ebitda) ==
    HighDebtMarker \o <<":", "Net", "Debt/EBITDA", "=">> \o Format2f(net_debt_ebitda)

\* f"{x:.1f}" of the percentage 100 * num / den (den > 0), to the nearest tenth
Format1fPercent(num, den) ==
    LET tenths == (2000 * num + den) \div (2 * den)
    IN  <<ToString(tenths \div 10), ".", ToString(tenths % 10), "%">>

\* yoy_growth > 50 and revenue_growth < yoy_growth / 2, on the exact quotients
\* yoy_growth = 100*(cur-prev)/prev when prev > 0, else 0 (likewise revenue)
RapidDebtGrowth(g) ==
    /\ g.previous_debt > 0
    /\ 100 * (g.current_debt - g.previous_debt) > 50 * g.previous_debt
    /\ IF g.previous_revenue > 0
       THEN 2 * (g.current_revenue - g.previous_revenue) * g.previous_debt
            < (g.current_debt - g.previous_debt) * g.previous_revenue
       ELSE TRUE

RapidDebtGrowthRedFlag(g) ==
    <<"Rapid", "Debt", "Growth", ":">>
    \o Format1fPercent(g.current_debt - g.previous_debt, g.previous_debt)
    \o <<"vs", "Revenue">>
    \o (IF g.previous_revenue > 0
        THEN Format1fPercent(g.current_revenue - g.previous_revenue, g.previous_revenue)
        ELSE <<"0", ".", "0", "%">>)

DebtAtLeastMutant(results, cd, debt_growth_data, max_debt_to_ebitda) ==
    LET net_debt_ebitda == DictGet(cd, "net_debt_ebitda", None)
        r1 == IF ~IsNone(net_debt_ebitda) /\ Val(net_debt_ebitda) # 0
                 /\ Val(net_debt_ebitda) >= max_debt_to_ebitda
              THEN AddRedFlag(results, HighDebtRedFlag(Val(net_debt_ebitda)))
              ELSE results
    IN  AddDetail(r1, "debt_analysis",
                  [net_debt_ebitda |-> net_debt_ebitda,
                   debt_growth_data |-> debt_growth_data])

apply_debt_analysis_filter(results, cd, debt_growth_data, max_debt_to_ebitda) ==
    LET net_debt_ebitda == DictGet(cd, "net_debt_ebitda", None)
        r1 == IF ~IsNone(net_debt_ebitda) /\ Val(net_debt_ebitda) # 0
                 /\ Val(net_debt_ebitda) > max_debt_to_ebitda
              THEN AddRedFlag(results, HighDebtRedFlag(Val(net_debt_ebitda)))
              ELSE results
        r2 == IF ~IsNone(debt_growth_data) /\ RapidDebtGrowth(Val(debt_growth_data))
              THEN AddRedFlag(r1, RapidDebtGrowthRedFlag(Val(debt_growth_data)))
              ELSE r1
    IN  AddDetail(r2, "debt_analysis",
                  [net_debt_ebitda |-> net_debt_ebitda,
                   debt_growth_data |-> debt_growth_data])

\* None < 0 raises TypeError
BalanceSheetRaises(cd) == IsNone(DictGet(cd, "shareholder_equity", Some(0)))

NegativeEquityRedFlag(shareholder_equity) ==
    NegativeEquityMarker \o <<":", "$", ToString(shareholder_equity)>>

BalanceSheetDisqualifiesMutant(results, cd) ==
    LET shareholder_equity == Val(DictGet(cd, "shareholder_equity", Some(0)))
        r1 == IF shareholder_equity < 0
              THEN [AddRedFlag(results, NegativeEquityRedFlag(shareholder_equity))
                       EXCEPT !.disqualified = TRUE]
              ELSE results
    IN  AddDetail(r1, "balance_sheet_health", [shareholder_equity |-> shareholder_equity])

apply_balance_sheet_filter(results, cd) ==
    LET shareholder_equity == Val(DictGet(cd, "shareholder_equity", Some(0)))
        r1 == IF shareholder_equity < 0
              THEN AddRedFlag(results, NegativeEquityRedFlag(shareholder_equity))
              ELSE results
    IN  AddDetail(r1, "balance_sheet_health", [shareholder_equity |-> shareholder_equity])

\* None < min_trading_volume raises TypeError
LiquidityRaises(cd) == IsNone(DictGet(cd, "avg_daily_volume", Some(0)))

LowVolumeRedFlag(avg_daily_volume) ==
    LowVolumeMarker \o <<":", ToString(avg_daily_volume), "shares/day">>

apply_liquidity_filter(results, cd, min_trading_volume) ==
    LET avg_daily_volume == Val(DictGet(cd, "avg_daily_volume", Some(0)))
        r1 == IF avg_daily_volume < min_trading_volume
              THEN AddRedFlag(results, LowVolumeRedFlag(avg_daily_volume))
              ELSE results
    IN  AddDetail(r1, "liquidity_analysis",
                  [avg_daily_volume |-> avg_daily_volume,
                   min_threshold |-> min_trading_volume])

\* str.upper() on the letters the exchange codes of the model use
UpperAtom(a) ==
    CASE a = "o" -> "O" [] a = "t" -> "T" [] a = "c" -> "C" [] a = "q" -> "Q"
      [] a = "x" -> "X" [] a = "p" -> "P" [] a = "n" -> "N" [] a = "k" -> "K"
      [] OTHER -> a

Upper(text) == [i \in 1..Len(text) |-> UpperAtom(text[i])]

otc_indicators ==
    <<<<"P", "N", "K">>, <<"O", "E", "M">>, <<"O", "Q", "X">>, <<"O", "T", "C">>,
      <<"O", "T", "C", "Q", "B">>, <<"O", "T", "C", "Q", "X">>>>

\* None.upper() raises AttributeError
ExchangeRaises(cd) == IsNone(DictGet(cd, "exchange", Some(<<>>)))

IsOtc(exchange) ==
    \E i \in 1..Len(otc_indicators) : Contains(exchange, otc_indicators[i])

OtcRedFlag(exchange) == OtcMarker \o <<":">> \o exchange

apply_exchange_filter(results, cd) ==
    LET exchange == Upper(Val(DictGet(cd, "exchange", Some(<<>>))))
        r1 == IF IsOtc(exchange) THEN AddRedFlag(results, OtcRedFlag(exchange)) ELSE results
    IN  AddDetail(r1, "exchange_info", [exchange |-> exchange, is_otc |-> IsOtc(exchange)])

----------------------------------------------------------------------------
(* News: _get_news_red_flags and _apply_news_red_flag_filter.  The news of *)
(* a company are keyed by published_date; red_flag_keywords is NULL or a   *)
(* JSON text [valid |-> it parses, obj |-> the list of keywords].          *)

RECURSIVE Flatten(_)
Flatten(seqs) == IF seqs = <<>> THEN <<>> ELSE Head(seqs) \o Flatten(Tail(seqs))

\* WHERE red_flag_keywords != '[]': NULL compares as unknown and is left out
IsTagged(row) ==
    /\ ~IsNone(row.red_flag_keywords)
    /\ ~(Val(row.red_flag_keywords).valid /\ Val(row.red_flag_keywords).obj = <<>>)

\* the news query with ORDER BY published_date ascending
GetNewsOldestFirstMutant(news_table) ==
    LET tagged == {d \in DOMAIN news_table : IsTagged(news_table[d])}
        negated == KeysDescLimit({0 - d : d \in tagged}, 10)
        dates == [i \in 1..Len(negated) |-> 0 - negated[i]]
        pairs(row) ==
            IF Val(row.red_flag_keywords).valid
            THEN [k \in 1..Len(Val(row.red_flag_keywords).obj) |->
                     [keyword |-> Val(row.red_flag_keywords).obj[k],
                      headline |-> row.headline]]
            ELSE <<>>
    IN  Flatten([i \in 1..Len(dates) |-> pairs(news_table[dates[i]])])

get_news_red_flags(news_table) ==
    LET tagged == {d \in DOMAIN news_table : IsTagged(news_table[d])}
        dates == KeysDescLimit(tagged, 10)
        pairs(row) ==
            IF Val(row.red_flag_keywords).valid
            THEN [k \in 1..Len(Val(row.red_flag_keywords).obj) |->
                     [keyword |-> Val(row.red_flag_keywords).obj[k],
                      headline |-> row.headline]]
            ELSE <<>>
    IN  Flatten([i \in 1..Len(dates) |-> pairs(news_table[dates[i]])])

\* headline[:100], one atom standing for one character
Truncate100(headline) == SubSeq(headline, 1, Min(Len(headline), 100))

NewsRedFlag(news_flag) ==
    NewsMarker \o <<"-">> \o news_flag.keyword \o <<":">>
    \o Truncate100(news_flag.headline) \o <<"...">>

RECURSIVE AppendNewsFlags(_, _)
AppendNewsFlags(results, news_red_flags) ==
    IF news_red_flags = <<>> THEN results
    ELSE AppendNewsFlags(AddRedFlag(results, NewsRedFlag(Head(news_red_flags))),
                         Tail(news_red_flags))

apply_news_red_flag_filter(results, news_red_flags) ==
    AddDetail(AppendNewsFlags(results, news_red_flags), "news_analysis",
              [red_flag_count |-> Len(news_red_flags), red_flags |-> news_red_flags])

----------------------------------------------------------------------------
(* Corporate action: _apply_corporate_action_filter *)

\* for flag in corporate_action_flags: if flag not in red_flags: append
RECURSIVE AppendNewFlags(_, _)
AppendNewFlags(results, flags) ==
    IF flags = <<>> THEN results
    ELSE AppendNewFlags(
             IF \E i \in 1..Len(results.red_flags) : results.red_flags[i] = Head(flags)
             THEN results ELSE AddRedFlag(results, Head(flags)),
             Tail(flags))

\* corporate_action_penalty // 2: Python floor division
FloorHalf(penalty) == penalty \div 2

apply_corporate_action_filter(results, cd, scoring_config) ==
    LET has_recent_splits == DictGet(cd, "has_recent_splits", FALSE)
        split_count == DictGet(cd, "split_count", 0)
        corporate_action_flags == DictGet(cd, "corporate_action_flags", <<>>)
        potential_action_detected == DictGet(cd, "potential_action_detected", FALSE)
    IN  IF has_recent_splits \/ potential_action_detected
        THEN IF has_recent_splits /\ split_count > 0
             THEN DictSet(AppendNewFlags(results, corporate_action_flags),
                          "corporate_action_penalty", scoring_config.corporate_action_penalty)
             ELSE IF potential_action_detected
             THEN DictSet(AppendNewFlags(results, corporate_action_flags),
                          "corporate_action_penalty",
                          FloorHalf(scoring_config.corporate_action_penalty))
             ELSE results
        ELSE DictSet(results, "corporate_action_penalty", 0)

----------------------------------------------------------------------------
(* RateLimiter: src/utils/rate_limiter.py.  Times are whole seconds.       *)

\* self.default_limits
default_limits ==
    [yfinance |-> 60, sec_edgar |-> 10, fmp |-> 300, alpha_vantage |-> 5, openai |-> 60]

\* config.get_api_config()['rate_limits'] with sec_edgar configured to `limit`
ApiLimits(limit) ==
    [yfinance |-> 60, sec_edgar |-> limit, fmp |-> 300, alpha_vantage |-> 5]

\* the services the callers of the model name
Services == {"sec_edgar", "openai"}

\* RateLimiter.__init__; `now` is the clock, `sleeping` the call that is in
\* time.sleep, `returned` the times at which the calls of a service returned
NewRateLimiter ==
    [api_limits |-> ApiLimits(10),
     last_request_times |-> [s \in Services |-> <<>>],
     request_counts |-> [s \in Services |-> 0],
     now |-> 0,
     sleeping |-> <<>>,
     returned |-> [s \in Services |-> <<>>]]

----------------------------------------------------------------------------
(* The stored data the runs start from.  A company is described by its     *)
(* row of the companies table and its rows of the other tables.            *)

Nyse == <<"N", "Y", "S", "E">>
OtcqxLower == <<"o", "t", "c", "q", "x">>

Statement(obj) == [valid |-> TRUE, obj |-> obj]
BadStatement == [valid |-> FALSE, obj |-> <<>>]

NoStatements == [cash_flow |-> <<>>, income |-> <<>>, balance_sheet |-> <<>>]

\* a series given oldest first, stored under the fiscal years 2019, 2020, ...
SeriesTable(item, values) ==
    [y \in {2018 + i : i \in 1..Len(values)} |-> Statement((item :> values[y - 2018]))]

RecentDay == Today - 30
OldDay == Today - 900

FilingRow(t, day, status) ==
    [filing_type |-> t, filing_date |-> day, download_status |-> status]

\* what the filing store holds for one filing type
FilingChoices(t) ==
    {{},
     {FilingRow(t, OldDay, "completed")},
     {FilingRow(t, RecentDay, "completed"), FilingRow(t, OldDay, "completed")},
     {FilingRow(t, RecentDay, "pending"), FilingRow(t, OldDay, "completed")}}

AllRecentFilings ==
    {FilingRow(t, RecentDay, "completed") : t \in {"10-K", "10-Q", "8-K", "DEF 14A"}}

FilingSets ==
    {k \cup q \cup e \cup d \cup o :
        k \in FilingChoices("10-K"), q \in FilingChoices("10-Q"),
        e \in FilingChoices("8-K"),
        d \in {{}, {FilingRow("DEF 14A", RecentDay, "completed")}},
        o \in {{}, {FilingRow("S-1", RecentDay, "completed")}}}

NewsRow(headline, keywords) ==
    [headline |-> headline, red_flag_keywords |-> keywords]

Keywords(list) == Some([valid |-> TRUE, obj |-> list])

NewsTables ==
    {<<>>,
     (10 :> NewsRow(<<"Quarterly", "results">>, Keywords(<<>>))),
     (10 :> NewsRow(<<"SEC", "opens", "probe">>, Keywords(<<<<"investigation">>, <<"fraud">>>>)))
        @@ (20 :> NewsRow(<<"Auditor", "resigns">>, Keywords(<<<<"resignation">>>>))),
     (10 :> NewsRow(<<"Analysts", "fear", "High", "Debt", "Burden">>, Keywords(<<<<"debt">>>>)))
        @@ (20 :> NewsRow(<<"Untagged">>, None))
        @@ (30 :> NewsRow(<<"Garbled">>, Some([valid |-> FALSE, obj |-> <<>>])))}

Company(exchange, volume, nde, equity, filings, statements, news_table) ==
    [exchange |-> exchange, avg_daily_volume |-> volume, net_debt_ebitda |-> nde,
     shareholder_equity |-> equity, filings |-> filings, statements |-> statements,
     news |-> news_table]

Clean ==
    Company(Some(Nyse), Some(60000), Some(300), Some(1000), AllRecentFilings,
            NoStatements, <<>>)

Troubled ==
    Company(Some(OtcqxLower), Some(100), Some(620), Some(-5),
            {FilingRow("10-K", OldDay, "completed"), FilingRow("8-K", RecentDay, "completed")},
            [cash_flow |-> SeriesTable("Free Cash Flow", <<-10, -20, -15, -25, -30>>),
             income |-> SeriesTable("Operating Income", <<-1, -2, 3, -4, -5>>),
             balance_sheet |-> SeriesTable("Total Debt", <<100, 200>>)],
            (10 :> NewsRow(<<"SEC", "opens", "probe">>, Keywords(<<<<"fraud">>>>))))

Sparse == Company(None, None, None, None, {}, NoStatements, <<>>)

\* the same series as free cash flow and as operating income
BothTables(values) ==
    [NoStatements EXCEPT !.cash_flow = SeriesTable("Free Cash Flow", values),
                         !.income = SeriesTable("Operating Income", values)]

StatementSets ==
    {NoStatements,
     [NoStatements EXCEPT !.cash_flow = SeriesTable("Free Cash Flow", <<-10, -5, -3, 2, 8>>)],
     [NoStatements EXCEPT !.cash_flow = SeriesTable("Free Cash Flow", <<-10, -20, -15, -25, -30>>)],
     [NoStatements EXCEPT !.cash_flow = SeriesTable("Free Cash Flow", <<4, -1, -2, -3, -4>>)],
     [NoStatements EXCEPT !.cash_flow = SeriesTable("OperatingCashFlow", <<-3, -2, -1>>)],
     [NoStatements EXCEPT !.cash_flow = (2023 :> BadStatement) @@ (2022 :> Statement(<<>>))],
     [NoStatements EXCEPT !.cash_flow =
         SeriesTable("Free Cash Flow", <<-1, -2, -3, -4>>)
         @@ (2023 :> Statement(("Capital Expenditure" :> 5)))],
     [NoStatements EXCEPT !.income =
         SeriesTable("Operating Income", <<-1, -2, -3, -4>>)
         @@ (2023 :> Statement(("Net Income" :> 5)))],
     BothTables(<<-30, -20, -10, -5, 4>>),
     BothTables(<<-10, -5, -3, 2, 8>>),
     [NoStatements EXCEPT !.income = SeriesTable("EBIT", <<-1, -2, -3, -4, 5>>)],
     [NoStatements EXCEPT !.income = SeriesTable("Revenue", <<100, 100>>),
                          !.balance_sheet = SeriesTable("Total Debt", <<100, 200>>)]}

\* the companies a one-company run is tried on: Clean varied one table at a time
SingleCompanies ==
    {[Clean EXCEPT !.filings = f] : f \in FilingSets}
    \cup {Company(x, v, n, e, AllRecentFilings, NoStatements, <<>>) :
            x \in {None, Some(Nyse), Some(OtcqxLower)},
            v \in {None, Some(49999), Some(50000)},
            n \in {None, Some(0), Some(500), Some(620)},
            e \in {None, Some(-5), Some(0)}}
    \cup {[Clean EXCEPT !.statements = st] : st \in StatementSets}
    \cup {[Clean EXCEPT !.news = nt] : nt \in NewsTables}
    \cup {Troubled, Sparse}

\* the companies a run over several companies is tried on
BatchCompanies == {Clean, Troubled, Sparse}

CompanyLists ==
    {<<>>} \cup {<<c>> : c \in SingleCompanies}
    \cup UNION {[1..n -> BatchCompanies] : n \in 2..MaxCompanies}

\* json.dumps of a list of strings: each string between quotes, a quote or
\* a backslash inside it escaped with a backslash
RECURSIVE JsonEscape(_)
JsonEscape(text) ==
    IF text = <<>> THEN <<>>
    ELSE (IF Head(text) \in {"\"", "\\"} THEN <<"\\", Head(text)>> ELSE <<Head(text)>>)
         \o JsonEscape(Tail(text))

JsonDumps(list) ==
    <<"[">>
    \o Join(<<",">>, [i \in 1..Len(list) |-> <<"\"">> \o JsonEscape(list[i]) \o <<"\"">>])
    \o <<"]">>

\* the number of backslashes directly before position i of the text
BackslashRun(text, i) ==
    LET stops == {j \in 1..(i - 1) : text[j] # "\\"}
    IN  (i - 1) - (IF stops = {} THEN 0 ELSE CHOOSE j \in stops : \A k \in stops : k <= j)

\* the members of a set of numbers in increasing order
SortedSeq(S) ==
    [k \in 1..Cardinality(S) |-> CHOOSE q \in S : Cardinality({r \in S : r < q}) = k - 1]

\* json.loads of such a text: the strings between the unescaped quotes,
\* each without the backslashes that escape its next character
JsonLoads(text) ==
    LET Escaped(i) == BackslashRun(text, i) % 2 = 1
        quotes == SortedSeq({i \in 1..Len(text) : text[i] = "\"" /\ ~Escaped(i)})
        StringAt(k) ==
            LET inside == SortedSeq({p \in (quotes[2 * k - 1] + 1)..(quotes[2 * k] - 1) :
                                        text[p] # "\\" \/ Escaped(p)})
            IN  [n \in 1..Len(inside) |-> text[inside[n]]]
    IN  [k \in 1..(Len(quotes) \div 2) |-> StringAt(k)]

\* the day the rows were inserted
InsertedDay == Today - 60

\* the row insert_company leaves: no flags, not disqualified, score 0
CompanyRow(id, c) ==
    [id |-> id, symbol |-> <<"C", ToString(id)>>, exchange |-> c.exchange,
     avg_daily_volume |-> c.avg_daily_volume, net_debt_ebitda |-> c.net_debt_ebitda,
     shareholder_equity |-> c.shareholder_equity, disqualified_flag |-> 0,
     red_flags_list |-> JsonDumps(<<>>), weschler_quality_score |-> 0,
     updated_at |-> InsertedDay]

Database(list) ==
    [companies |-> [i \in 1..Len(list) |-> CompanyRow(i, list[i])],
     sec_filings |-> [i \in 1..Len(list) |-> list[i].filings],
     financial_statements |-> [i \in 1..Len(list) |-> list[i].statements],
     news |-> [i \in 1..Len(list) |-> list[i].news]]

HarshScoringConfig == [k \in DOMAIN DefaultScoringConfig |-> -60]

ScoringConfigs == {DefaultScoringConfig, HarshScoringConfig}

----------------------------------------------------------------------------
(* The run: process_all_companies calling apply_all_filters per company    *)

NoResults == <<>>

NoObs ==
    [attempted |-> <<>>,     \* company ids apply_all_filters was called with
     outcomes |-> <<>>,      \* per finished call: "result", "unsaved" (a result whose
                             \* write failed), "empty" or "raised"
     query_failed |-> FALSE, \* the company query of the batch raised
     lookup_failed |-> FALSE,\* the filing lookup of the current company raised
     ran |-> <<>>,           \* evaluators entered for the current company
     raised |-> {},          \* evaluators whose body raised for the current company
     write_failed |-> FALSE, \* the UPDATE of the current company failed
     returned |-> None,      \* what the current call of apply_all_filters returned
     faults |-> 0,           \* failures injected so far
     producers |-> <<>>,     \* per finding of the current result: the evaluator that appended it
     wrote |-> FALSE,        \* the UPDATE of the current call was executed and committed
     stored_before |-> None, \* the company's stored row when the current call began
     calls |-> <<>>]         \* finished direct calls of apply_all_filters

Init ==
    /\ \E list \in CompanyLists : db = Database(list)
    /\ \E sc \in ScoringConfigs : config = [scoring |-> sc, filter |-> DefaultFilterConfig]
    /\ pc = "start"
    /\ batch = [companies |-> <<>>, i |-> 1, processed_count |-> 0, error_count |-> 0]
    /\ company_data = None
    /\ filter_results = NoResults
    /\ summary = None
    /\ obs = NoObs
    /\ db_manager = NewDatabaseManager
    /\ rate_limiter = NewRateLimiter

\* a failure of the environment (the database raising, an evaluator body
\* raising) may be injected while fewer than MaxFaults were
MayFail == {FALSE} \cup (IF obs.faults < MaxFaults THEN {TRUE} ELSE {})

Count(fails) == IF fails THEN 1 ELSE 0

\* lines 748-757 and 792-794: the company query
QueryCompanies ==
    /\ pc = "start"
    /\ \E db_fails \in MayFail :
        /\ obs' = [obs EXCEPT !.faults = @ + Count(db_fails), !.query_failed = db_fails]
        /\ IF db_fails
           THEN /\ summary' = Some([processed |-> 0, errors |-> 1])
                /\ pc' = "done"
                /\ UNCHANGED batch
           ELSE LET companies ==
                        [i \in 1..Len(db.companies) |->
                            [id |-> db.companies[i].id, symbol |-> db.companies[i].symbol]]
                IN  IF companies = <<>>
                    THEN /\ summary' = Some([processed |-> 0, errors |-> 0])
                         /\ pc' = "done"
                         /\ UNCHANGED batch
                    ELSE /\ batch' = [batch EXCEPT !.companies = companies]
                         /\ pc' = "loop"
                         /\ UNCHANGED summary
    /\ UNCHANGED <<db, config, company_data, filter_results, db_manager, rate_limiter>>

\* lines 783-790: the loop is over, the summary is returned
FinishBatch ==
    /\ pc = "loop"
    /\ batch.i > Len(batch.companies)
    /\ summary' = Some([processed |-> batch.processed_count,
                        errors |-> batch.error_count,
                        total |-> Len(batch.companies)])
    /\ pc' = "done"
    /\ UNCHANGED <<db, config, batch, company_data, filter_results, obs, db_manager, rate_limiter>>

\* _get_company_data: SELECT * FROM companies WHERE id = ?; None when there
\* is no such row or the database raises
get_company_data(company_id, db_fails) ==
    IF db_fails \/ company_id \notin DOMAIN db.companies THEN None
    ELSE Some(db.companies[company_id])

InitialResultsFromStoredMutant(company_id, symbol) ==
    [company_id |-> company_id, symbol |-> symbol,
     red_flags |-> JsonLoads(db.companies[company_id].red_flags_list),
     disqualified |-> FALSE, quality_score |-> 0, filter_details |-> <<>>]

InitialResults(company_id, symbol) ==
    [company_id |-> company_id, symbol |-> symbol, red_flags |-> <<>>,
     disqualified |-> FALSE, quality_score |-> 0, filter_details |-> <<>>]

\* lines 53-72: apply_all_filters loads the snapshot of the company and
\* either returns {} or starts a fresh result
EnterApplyAllFilters(company_id) ==
    \E db_fails \in MayFail :
        LET loaded == get_company_data(company_id, db_fails) IN
        /\ company_data' = loaded
        /\ obs' = [obs EXCEPT !.attempted = Append(@, company_id),
                              !.ran = <<>>, !.raised = {}, !.write_failed = FALSE,
                              !.lookup_failed = FALSE, !.returned = None,
                              !.producers = <<>>, !.wrote = FALSE,
                              !.stored_before =
                                  IF company_id \in DOMAIN db.companies
                                  THEN Some(db.companies[company_id]) ELSE None,
                              !.faults = @ + Count(db_fails)]
        /\ IF IsNone(loaded)
           THEN /\ filter_results' = NoResults
                /\ pc' = "return"
           ELSE /\ filter_results' = InitialResults(company_id, Val(loaded).symbol)
                /\ pc' = "sec_filing"

\* lines 762-770: the batch loop takes the next company and calls
\* apply_all_filters with its id
BeginCompany ==
    /\ pc = "loop"
    /\ batch.i <= Len(batch.companies)
    /\ EnterApplyAllFilters(batch.companies[batch.i].id)
    /\ UNCHANGED <<db, config, batch, summary, db_manager, rate_limiter>>

----------------------------------------------------------------------------
(* apply_all_filters, lines 74-83: the nine evaluators in their fixed      *)
(* order.  `fault` is an exception raised by the body of the evaluator     *)
(* before it has appended anything.                                        *)

Snapshot == Val(company_data)

\* the evaluator `name` took the findings from `before` to `after`
Produced(name, before, after) ==
    [i \in 1..(Len(after.red_flags) - Len(before.red_flags)) |-> name]

\* line 75: _apply_sec_filing_filter has no try/except: what its body
\* raises leaves apply_all_filters and reaches the handler of the batch loop
ApplySecFilingFilter ==
    /\ pc = "sec_filing"
    /\ \E fault \in MayFail, lookup_fails \in MayFail :
        /\ obs.faults + Count(fault) + Count(lookup_fails) <= MaxFaults
        /\ IF fault
           THEN /\ pc' = "except"
                /\ UNCHANGED filter_results
           ELSE /\ filter_results' =
                       apply_sec_filing_filter(
                           filter_results,
                           check_recent_filings(db.sec_filings[Snapshot.id], lookup_fails))
                /\ pc' = "fcf"
        /\ obs' = [obs EXCEPT !.ran = Append(@, "sec_filing"),
                              !.raised = IF fault THEN @ \cup {"sec_filing"} ELSE @,
                              !.lookup_failed = ~fault /\ lookup_fails,
                              !.producers =
                                  IF fault THEN @
                                  ELSE @ \o Produced("sec_filing", filter_results, filter_results'),
                              !.faults = @ + Count(fault) + Count(lookup_fails)]
    /\ UNCHANGED <<db, config, batch, company_data, summary, db_manager, rate_limiter>>

\* an evaluator whose body is inside try/except Exception: the handler logs
\* and the evaluator returns normally with what it had appended so far
GuardedEvaluator(name, next, data_raises, after_body, after_except) ==
    /\ pc = name
    /\ \E fault \in MayFail :
        /\ filter_results' = IF fault \/ data_raises THEN after_except ELSE after_body
        /\ obs' = [obs EXCEPT !.ran = Append(@, name),
                              !.raised = IF fault \/ data_raises THEN @ \cup {name} ELSE @,
                              !.producers = @ \o Produced(name, filter_results, filter_results'),
                              !.faults = @ + Count(fault)]
    /\ pc' = next
    /\ UNCHANGED <<db, config, batch, company_data, summary, db_manager, rate_limiter>>

ApplyFcfConsistencyFilter ==
    GuardedEvaluator("fcf", "operating_income", FALSE,
        apply_fcf_consistency_filter(
            filter_results,
            get_historical_fcf_data(db.financial_statements[Snapshot.id]),
            config.filter.fcf_negative_years_threshold),
        filter_results)

ApplyOperatingIncomeFilter ==
    GuardedEvaluator("operating_income", "debt", FALSE,
        apply_operating_income_filter(
            filter_results,
            get_historical_operating_income_data(db.financial_statements[Snapshot.id]),
            config.filter.operating_income_negative_years_threshold),
        filter_results)

ApplyDebtAnalysisFilter ==
    GuardedEvaluator("debt", "balance_sheet", FALSE,
        apply_debt_analysis_filter(
            filter_results, Snapshot,
            get_debt_growth_data(db.financial_statements[Snapshot.id]),
            config.filter.max_debt_to_ebitda),
        filter_results)

ApplyBalanceSheetFilter ==
    GuardedEvaluator("balance_sheet", "liquidity", BalanceSheetRaises(Snapshot),
        apply_balance_sheet_filter(filter_results, Snapshot),
        filter_results)

\* the liquidity evaluator reading a NULL volume as 0 (COALESCE)
ApplyLiquidityNullAsZeroMutant ==
    GuardedEvaluator("liquidity", "exchange", FALSE,
        apply_liquidity_filter(
            filter_results,
            [Snapshot EXCEPT !.avg_daily_volume = IF IsNone(@) THEN Some(0) ELSE @],
            config.filter.min_trading_volume),
        filter_results)

ApplyLiquidityFilter ==
    GuardedEvaluator("liquidity", "exchange", LiquidityRaises(Snapshot),
        apply_liquidity_filter(filter_results, Snapshot, config.filter.min_trading_volume),
        filter_results)

ApplyExchangeFilter ==
    GuardedEvaluator("exchange", "news", ExchangeRaises(Snapshot),
        apply_exchange_filter(filter_results, Snapshot),
        filter_results)

ApplyNewsRedFlagFilter ==
    GuardedEvaluator("news", "corporate_action", FALSE,
        apply_news_red_flag_filter(filter_results,
                                   get_news_red_flags(db.news[Snapshot.id])),
        filter_results)

\* its except branch also sets corporate_action_penalty to 0
ApplyCorporateActionFilter ==
    GuardedEvaluator("corporate_action", "score", FALSE,
        apply_corporate_action_filter(filter_results, Snapshot, config.scoring),
        DictSet(filter_results, "corporate_action_penalty", 0))

----------------------------------------------------------------------------
(* apply_all_filters, lines 85-92, and the rest of the loop body           *)

\* line 86
CalculateQualityScore ==
    /\ pc = "score"
    /\ filter_results' =
           [filter_results EXCEPT
               !.quality_score = calculate_quality_score(config.scoring, filter_results)]
    /\ pc' = "update"
    /\ UNCHANGED <<db, config, batch, company_data, summary, obs, db_manager, rate_limiter>>

\* UPDATE companies SET red_flags_list, disqualified_flag,
\* weschler_quality_score, updated_at = CURRENT_TIMESTAMP WHERE id = ?
UpdateAllRowsMutant(companies, company_id, results) ==
    [id \in DOMAIN companies |->
        [companies[id] EXCEPT !.red_flags_list = JsonDumps(results.red_flags),
                              !.disqualified_flag = IF results.disqualified THEN 1 ELSE 0,
                              !.weschler_quality_score = results.quality_score,
                              !.updated_at = Today]]

UpdateMergingMutant(companies, company_id, results) ==
    [companies EXCEPT ![company_id] =
        [@ EXCEPT !.red_flags_list = JsonDumps(JsonLoads(@) \o results.red_flags),
                  !.disqualified_flag = IF results.disqualified THEN 1 ELSE @,
                  !.weschler_quality_score = results.quality_score,
                  !.updated_at = Today]]

UpdatedCompanies(companies, company_id, results) ==
    [companies EXCEPT ![company_id] =
        [@ EXCEPT !.red_flags_list = JsonDumps(results.red_flags),
                  !.disqualified_flag = IF results.disqualified THEN 1 ELSE 0,
                  !.weschler_quality_score = results.quality_score,
                  !.updated_at = Today]]

\* lines 89-92: the write, then the result is returned;
\* _update_company_filtering_results catches what the write raises and logs it
UpdateCompanyFilteringResults ==
    /\ pc = "update"
    /\ \E db_fails \in MayFail :
        /\ db' = IF db_fails THEN db
                 ELSE [db EXCEPT !.companies =
                          UpdatedCompanies(@, filter_results.company_id, filter_results)]
        /\ obs' = [obs EXCEPT !.write_failed = db_fails,
                              !.wrote = ~db_fails,
                              !.returned = Some(filter_results),
                              !.faults = @ + Count(db_fails)]
        /\ pc' = "return"
    /\ UNCHANGED <<config, batch, company_data, filter_results, summary, db_manager, rate_limiter>>

\* `if filter_results:` is true of a non-empty dict
Truthy(results) == results # NoResults

CountAsErrorMutant(results) == Truthy(results) /\ ~obs.write_failed

CountAlwaysProcessedMutant(results) == TRUE

CountsAsProcessed(results) == Truthy(results)

\* lines 772-777: the batch loop counts what apply_all_filters returned
ReturnToBatch ==
    /\ pc = "return"
    /\ batch' = IF CountsAsProcessed(filter_results)
                THEN [batch EXCEPT !.processed_count = @ + 1, !.i = @ + 1]
                ELSE [batch EXCEPT !.error_count = @ + 1, !.i = @ + 1]
    /\ obs' = [obs EXCEPT !.outcomes =
                  Append(@, IF ~Truthy(filter_results) THEN "empty"
                            ELSE IF obs.write_failed THEN "unsaved" ELSE "result")]
    /\ pc' = "loop"
    /\ UNCHANGED <<db, config, company_data, filter_results, summary, db_manager, rate_limiter>>

\* lines 779-781 and 792-794: the handler of the loop body counts the error
\* and logs company.get('symbol', 'unknown'); `company` is a sqlite3.Row,
\* which has keys() and indexing but no get(), so the log line raises
\* AttributeError, which leaves the loop and is caught by the outer handler
HandleCompanyException ==
    /\ pc = "except"
    /\ obs' = [obs EXCEPT !.outcomes = Append(@, "raised")]
    /\ batch' = [batch EXCEPT !.error_count = @ + 1]
    /\ summary' = Some([processed |-> 0, errors |-> 1])
    /\ pc' = "done"
    /\ UNCHANGED <<db, config, company_data, filter_results, db_manager, rate_limiter>>

Next ==
    \/ QueryCompanies
    \/ FinishBatch
    \/ BeginCompany
    \/ ApplySecFilingFilter
    \/ ApplyFcfConsistencyFilter
    \/ ApplyOperatingIncomeFilter
    \/ ApplyDebtAnalysisFilter
    \/ ApplyBalanceSheetFilter
    \/ ApplyLiquidityFilter
    \/ ApplyExchangeFilter
    \/ ApplyNewsRedFlagFilter
    \/ ApplyCorporateActionFilter
    \/ CalculateQualityScore
    \/ UpdateCompanyFilteringResults
    \/ ReturnToBatch
    \/ HandleCompanyException

Spec == Init /\ [][Next]_vars

----------------------------------------------------------------------------
(* apply_all_filters called directly, several times in a row, on a         *)
(* database of one company whose row may hold what an earlier screening,   *)
(* of data since replaced, left in it                                      *)

\* the row after an earlier screening that found an old 8-K and low volume
StaleRow(row) ==
    [row EXCEPT !.red_flags_list =
                    JsonDumps(<<SecFilingRedFlag(<<"8-K">>), LowVolumeRedFlag(10)>>),
                !.disqualified_flag = 1,
                !.weschler_quality_score = 75]

\* a clean company with a news row whose headline holds quotes and a backslash
Quoted ==
    [Clean EXCEPT !.news =
        (10 :> NewsRow(<<"CEO", "\"", "resigns", "\"", "\\">>,
                       Keywords(<<<<"resignation">>>>)))]

InitApply ==
    /\ \E c \in BatchCompanies \cup {Quoted}, stale \in BOOLEAN :
           db = [Database(<<c>>) EXCEPT
                    !.companies[1] = IF stale THEN StaleRow(@) ELSE @]
    /\ \E sc \in ScoringConfigs : config = [scoring |-> sc, filter |-> DefaultFilterConfig]
    /\ pc = "idle"
    /\ batch = [companies |-> <<>>, i |-> 1, processed_count |-> 0, error_count |-> 0]
    /\ company_data = None
    /\ filter_results = NoResults
    /\ summary = None
    /\ obs = NoObs
    /\ db_manager = NewDatabaseManager
    /\ rate_limiter = NewRateLimiter

\* apply_all_filters(company_id), for an id of the table or one past it
CallApplyAllFilters ==
    /\ pc = "idle"
    /\ Len(obs.attempted) < MaxCalls
    /\ \E company_id \in 1..(Len(db.companies) + 1) : EnterApplyAllFilters(company_id)
    /\ UNCHANGED <<db, config, batch, summary, db_manager, rate_limiter>>

CallRecord(result, raised) ==
    [company_id |-> obs.attempted[Len(obs.attempted)], result |-> result,
     raised |-> raised, wrote |-> obs.wrote]

\* lines 59 and 92: the caller receives the result
ReturnToCaller ==
    /\ pc = "return"
    /\ obs' = [obs EXCEPT !.calls = Append(@, CallRecord(filter_results, FALSE))]
    /\ pc' = "idle"
    /\ UNCHANGED <<db, config, batch, company_data, filter_results, summary, db_manager, rate_limiter>>

\* line 75: what _apply_sec_filing_filter raises reaches the caller
RaiseToCaller ==
    /\ pc = "except"
    /\ obs' = [obs EXCEPT !.calls = Append(@, CallRecord(NoResults, TRUE))]
    /\ pc' = "idle"
    /\ UNCHANGED <<db, config, batch, company_data, filter_results, summary, db_manager, rate_limiter>>

NextApply ==
    \/ CallApplyAllFilters
    \/ ApplySecFilingFilter
    \/ ApplyFcfConsistencyFilter
    \/ ApplyOperatingIncomeFilter
    \/ ApplyDebtAnalysisFilter
    \/ ApplyBalanceSheetFilter
    \/ ApplyLiquidityFilter
    \/ ApplyExchangeFilter
    \/ ApplyNewsRedFlagFilter
    \/ ApplyCorporateActionFilter
    \/ CalculateQualityScore
    \/ UpdateCompanyFilteringResults
    \/ ReturnToCaller
    \/ RaiseToCaller

SpecApply == InitApply /\ [][NextApply]_vars

----------------------------------------------------------------------------
(* _apply_corporate_action_filter and the aggregator on their own: the     *)
(* evaluator applied to a snapshot that carries the corporate-action data  *)
(* of the data fetcher, then the score of what it left                     *)

\* flag strings as data_fetcher words them
CorporateFlagPool ==
    {CorporateActionMarker \o <<":", "Stock", "Split">>,
     CorporateActionMarker \o <<":", "Reverse", "Split">>,
     CorporateActionMarker \o <<":", "High", "Volatility", "Pattern", "(Requires", "Review)">>}

CorporateFlagLists ==
    UNION {[1..n -> CorporateFlagPool] : n \in 0..MaxCorporateFlags}

\* the companies row of Clean with the corporate-action keys added
CorporateSnapshot(has_recent_splits, split_count, potential_action_detected, flags) ==
    [k \in DOMAIN CompanyRow(1, Clean)
          \cup {"has_recent_splits", "split_count", "potential_action_detected",
                "corporate_action_flags"} |->
        IF k = "has_recent_splits" THEN has_recent_splits
        ELSE IF k = "split_count" THEN split_count
        ELSE IF k = "potential_action_detected" THEN potential_action_detected
        ELSE IF k = "corporate_action_flags" THEN flags
        ELSE CompanyRow(1, Clean)[k]]

InitCorporate ==
    /\ db = Database(<<Clean>>)
    /\ \E sc \in ScoringConfigs : config = [scoring |-> sc, filter |-> DefaultFilterConfig]
    /\ \E has_recent_splits \in BOOLEAN, split_count \in 0..MaxCorporateFlags,
          potential_action_detected \in BOOLEAN, flags \in CorporateFlagLists :
           company_data = Some(CorporateSnapshot(has_recent_splits, split_count,
                                                 potential_action_detected, flags))
    /\ filter_results = InitialResults(1, CompanyRow(1, Clean).symbol)
    /\ pc = "corporate_action"
    /\ batch = [companies |-> <<>>, i |-> 1, processed_count |-> 0, error_count |-> 0]
    /\ summary = None
    /\ obs = NoObs
    /\ db_manager = NewDatabaseManager
    /\ rate_limiter = NewRateLimiter

NextCorporate ==
    \/ ApplyCorporateActionFilter
    \/ CalculateQualityScore

SpecCorporate == InitCorporate /\ [][NextCorporate]_vars

----------------------------------------------------------------------------
----------------------------------------------------------------------------
(* _apply_news_red_flag_filter on its own: the evaluator applied to the     *)
(* snapshot of a company with up to MaxNews keyword-tagged news items       *)

\* a headline of 101 characters
LongHeadline == [k \in 1..101 |-> IF k = 101 THEN "!" ELSE "x"]

\* n tagged items published on the days 1..n, each with per_item keywords;
\* `long` gives the latest of them the long headline; `extras` adds three
\* later items: one with NULL keywords, one with '[]', one whose keywords
\* are not JSON
NewsFeed(n, per_item, long, extras) ==
    [d \in 1..(IF extras THEN n + 3 ELSE n) |->
        IF d <= n
        THEN NewsRow(IF long /\ d = n THEN LongHeadline ELSE <<"Story", ToString(d)>>,
                     Keywords(IF per_item = 1 THEN <<<<"fraud">>>>
                              ELSE <<<<"fraud">>, <<"lawsuit">>>>))
        ELSE IF d = n + 1 THEN NewsRow(<<"Untagged">>, None)
        ELSE IF d = n + 2 THEN NewsRow(<<"Quarterly", "results">>, Keywords(<<>>))
        ELSE NewsRow(<<"Garbled">>, Some([valid |-> FALSE, obj |-> <<>>]))]

InitNews ==
    /\ \E n \in 0..MaxNews, per_item \in 1..2, long \in BOOLEAN, extras \in BOOLEAN :
           db = Database(<<[Clean EXCEPT !.news = NewsFeed(n, per_item, long, extras)]>>)
    /\ \E sc \in ScoringConfigs : config = [scoring |-> sc, filter |-> DefaultFilterConfig]
    /\ company_data = Some(db.companies[1])
    /\ filter_results = InitialResults(1, db.companies[1].symbol)
    /\ pc = "news"
    /\ batch = [companies |-> <<>>, i |-> 1, processed_count |-> 0, error_count |-> 0]
    /\ summary = None
    /\ obs = NoObs
    /\ db_manager = NewDatabaseManager
    /\ rate_limiter = NewRateLimiter

NextNews ==
    \/ ApplyNewsRedFlagFilter
    \/ ApplyCorporateActionFilter
    \/ CalculateQualityScore

SpecNews == InitNews /\ [][NextNews]_vars

----------------------------------------------------------------------------
(* The shared DatabaseManager used as a scoped resource: the operations of  *)
(* the engine that run `with self.db_manager:`, step by step.  __enter__    *)
(* is connect(), __exit__ is disconnect(); every operation wraps its block  *)
(* in try/except Exception and returns a default when anything raises.      *)

ScopedOperations ==
    {"_get_historical_fcf_data", "_get_revenue_growth", "_get_debt_growth_data"}

\* the innermost scoped block that is running
TopBlock == db_manager.stack[Len(db_manager.stack)]

\* connect(): a new connection and its cursor replace what the handle held
Connected(manager) ==
    [manager EXCEPT !.handle = connect(@),
                    !.opened = Append(@, TRUE),
                    !.connection = Len(manager.opened) + 1]

\* disconnect() when cursor.close() does not raise: the connection the
\* handle holds is closed; the handle keeps referring to it
Disconnected(manager) ==
    [manager EXCEPT !.handle = disconnect(@),
                    !.opened = IF manager.connection = 0 THEN @
                               ELSE [@ EXCEPT ![manager.connection] = FALSE]]

\* __enter__ of the block of `operation`
EnteredBlock(manager, operation) ==
    [Connected(manager) EXCEPT
        !.stack = Append(@, [operation |-> operation, at |-> "execute",
                             connection |-> Len(manager.opened) + 1,
                             raised |-> FALSE])]

\* cursor.execute raises ProgrammingError on a closed connection
CursorUsable(manager) == manager.handle.has_cursor /\ manager.handle.open

\* where the body of the block goes after its query, given the statements
\* of the company: "raise" when json.loads raises outside an inner try
AfterQuery(operation, statements) ==
    LET TwoParsed(table) ==
            LET rows == OrderDescLimit(table, 2)
            IN  IF Len(rows) < 2 THEN "return"
                ELSE IF ~rows[1].statement_data.valid \/ ~rows[2].statement_data.valid
                THEN "raise"
                ELSE "computed"
    IN  IF operation = "_get_historical_fcf_data" THEN "return"
        ELSE IF operation = "_get_revenue_growth"
        THEN (IF TwoParsed(statements.income) = "raise" THEN "raise" ELSE "return")
        ELSE (IF TwoParsed(statements.balance_sheet) = "computed" THEN "nested"
              ELSE TwoParsed(statements.balance_sheet))

ScopedCompanies ==
    {Clean, Troubled} \cup {[Clean EXCEPT !.statements = st] : st \in StatementSets}

InitScoped ==
    /\ \E c \in ScopedCompanies : db = Database(<<c>>)
    /\ config = [scoring |-> DefaultScoringConfig, filter |-> DefaultFilterConfig]
    /\ pc = "idle"
    /\ batch = [companies |-> <<>>, i |-> 1, processed_count |-> 0, error_count |-> 0]
    /\ company_data = None
    /\ filter_results = NoResults
    /\ summary = None
    /\ obs = NoObs
    /\ db_manager = NewDatabaseManager
    /\ rate_limiter = NewRateLimiter

\* an operation is called while no block is running: try, with, __enter__
CallScopedOperation ==
    /\ db_manager.stack = <<>>
    /\ Len(db_manager.finished) < MaxOperations
    /\ \E operation \in ScopedOperations :
           db_manager' = EnteredBlock(db_manager, operation)
    /\ UNCHANGED <<screening_vars, rate_limiter>>

\* cursor.execute, fetchall and the body up to its return or nested call
ExecuteQuery ==
    /\ db_manager.stack # <<>>
    /\ TopBlock.at = "execute"
    /\ LET after == IF CursorUsable(db_manager)
                    THEN AfterQuery(TopBlock.operation, db.financial_statements[1])
                    ELSE "raise"
       IN  db_manager' =
               [db_manager EXCEPT
                   !.stack[Len(db_manager.stack)] =
                       [@ EXCEPT !.at = IF after = "nested" THEN "nested" ELSE "exit",
                                 !.raised = after = "raise"]]
    /\ UNCHANGED <<screening_vars, rate_limiter>>

\* line 568: _get_debt_growth_data calls _get_revenue_growth inside its block
CallRevenueGrowth ==
    /\ db_manager.stack # <<>>
    /\ TopBlock.at = "nested"
    /\ db_manager' =
           EnteredBlock([db_manager EXCEPT !.stack[Len(db_manager.stack)].at = "exit"],
                        "_get_revenue_growth")
    /\ UNCHANGED <<screening_vars, rate_limiter>>

\* __exit__: disconnect(), which raises when the handle's connection is
\* already closed; the operation then returns to its caller, with its
\* default when the body or __exit__ raised
ExitScopedBlock ==
    /\ db_manager.stack # <<>>
    /\ TopBlock.at = "exit"
    /\ LET raises == DisconnectRaises(db_manager.handle)
           after == IF raises THEN db_manager ELSE Disconnected(db_manager)
           outer == SubSeq(db_manager.stack, 1, Len(db_manager.stack) - 1)
       IN  db_manager' =
               [after EXCEPT
                   !.stack = outer,
                   !.finished =
                       IF outer = <<>>
                       THEN Append(@, [operation |-> TopBlock.operation,
                                       raised |-> TopBlock.raised \/ raises])
                       ELSE @]
    /\ UNCHANGED <<screening_vars, rate_limiter>>

NextScoped ==
    \/ CallScopedOperation
    \/ ExecuteQuery
    \/ CallRevenueGrowth
    \/ ExitScopedBlock

SpecScoped == InitScoped /\ [][NextScoped]_vars

----------------------------------------------------------------------------
(* The RateLimiter: wait_if_needed called at any times by one caller.  Time *)
(* is in whole seconds; a call that sleeps is between its entry and its     *)
(* return until WakeUp.  `returned` keeps, per service, the times at which  *)
(* calls returned.                                                          *)

\* timedelta(minutes=1), in seconds
Minute == 60

\* seconds between the previous return and the next call
Delays == {0, 1, 59}

\* the configured sec_edgar limits the runs start from
LimiterLimits == {1, 2, 10}

get_limit_for_service(limiter, service) ==
    DictGet(limiter.api_limits, service, DictGet(default_limits, service, 60))

\* the earliest of a non-empty list of request times
OldestRequest(times) ==
    CHOOSE t \in {times[i] : i \in 1..Len(times)} :
        \A i \in 1..Len(times) : t <= times[i]

\* lines 74-76: the request is recorded with the time the call was entered
Recorded(limiter, service, current_time, return_time) ==
    [limiter EXCEPT
        !.last_request_times[service] = Append(@, current_time),
        !.request_counts[service] = @ + 1,
        !.returned[service] = Append(@, return_time),
        !.now = return_time,
        !.sleeping = <<>>]

RequestsMade ==
    rate_limiter.request_counts["sec_edgar"] + rate_limiter.request_counts["openai"]

InitLimiter ==
    /\ db = Database(<<Clean>>)
    /\ config = [scoring |-> DefaultScoringConfig, filter |-> DefaultFilterConfig]
    /\ pc = "idle"
    /\ batch = [companies |-> <<>>, i |-> 1, processed_count |-> 0, error_count |-> 0]
    /\ company_data = None
    /\ filter_results = NoResults
    /\ summary = None
    /\ obs = NoObs
    /\ db_manager = NewDatabaseManager
    /\ \E limit \in LimiterLimits :
           rate_limiter = [NewRateLimiter EXCEPT !.api_limits = ApiLimits(limit)]

\* wait_if_needed(service) up to its return or its time.sleep
WaitIfNeeded ==
    /\ rate_limiter.sleeping = <<>>
    /\ RequestsMade < MaxRequests
    /\ \E service \in Services, delay \in Delays :
           LET current_time == rate_limiter.now + delay
               limit == get_limit_for_service(rate_limiter, service)
               kept == SelectSeq(rate_limiter.last_request_times[service],
                                 LAMBDA req_time : req_time > current_time - Minute)
               cleaned == [rate_limiter EXCEPT !.last_request_times[service] = kept,
                                               !.now = current_time]
           IN  IF Len(kept) >= limit /\ current_time < OldestRequest(kept) + Minute
               THEN rate_limiter' =
                        [cleaned EXCEPT
                            !.sleeping = <<[service |-> service,
                                            current_time |-> current_time,
                                            wait_until |-> OldestRequest(kept) + Minute]>>]
               ELSE rate_limiter' = Recorded(cleaned, service, current_time, current_time)
    /\ UNCHANGED <<screening_vars, db_manager>>

\* time.sleep(wait_seconds) is over: the call records its request and returns
WakeUp ==
    /\ rate_limiter.sleeping # <<>>
    /\ LET call == rate_limiter.sleeping[1]
       IN  rate_limiter' =
               Recorded(rate_limiter, call.service, call.current_time, call.wait_until)
    /\ UNCHANGED <<screening_vars, db_manager>>

NextLimiter ==
    \/ WaitIfNeeded
    \/ WakeUp

SpecLimiter == InitLimiter /\ [][NextLimiter]_vars

----------------------------------------------------------------------------
(* The score aggregator on its own: _calculate_quality_score applied to    *)
(* any list of findings under any of a few penalty configurations          *)

MixedScoringConfig ==
    [DefaultScoringConfig EXCEPT !.otc_penalty = 5, !.news_red_flag_penalty = 0,
                                 !.high_debt_penalty = -101]

AggregatorConfigs == {DefaultScoringConfig, HarshScoringConfig, MixedScoringConfig}

\* findings of every category, findings of no category, and findings whose
\* free text holds the marker of another category
FlagPool ==
    {SecFilingRedFlag(<<"10-K", "8-K">>),
     PersistentFcfRedFlag(5, 5),
     AcceleratingFcfRedFlag,
     OperatingLossRedFlag(4, 5),
     HighDebtRedFlag(620),
     <<"Rapid", "Debt", "Growth", ":", "100", ".", "0", "%", "vs", "Revenue", "0", ".", "0", "%">>,
     NegativeEquityRedFlag(-5),
     LowVolumeRedFlag(100),
     OtcRedFlag(<<"O", "T", "C", "Q", "X">>),
     NewsRedFlag([keyword |-> <<"fraud">>, headline |-> <<"SEC", "opens", "probe">>]),
     NewsRedFlag([keyword |-> <<"debt">>,
                  headline |-> <<"Analysts", "fear", "High", "Debt", "Burden">>]),
     NewsRedFlag([keyword |-> <<"split">>,
                  headline |-> <<"Corporate", "Action", "announced">>]),
     <<"Corporate", "Action", ":", "Stock", "Split">>}

FlagLists == UNION {[1..n -> FlagPool] : n \in 0..MaxFlags}

InitScore ==
    /\ db = Database(<<Clean>>)
    /\ \E sc \in AggregatorConfigs : config = [scoring |-> sc, filter |-> DefaultFilterConfig]
    /\ pc = "score"
    /\ batch = [companies |-> <<>>, i |-> 1, processed_count |-> 0, error_count |-> 0]
    /\ company_data = Some(db.companies[1])
    /\ \E flags \in FlagLists :
           filter_results = [InitialResults(1, db.companies[1].symbol) EXCEPT !.red_flags = flags]
    /\ summary = None
    /\ obs = NoObs
    /\ db_manager = NewDatabaseManager
    /\ rate_limiter = NewRateLimiter

SpecScore == InitScore /\ [][CalculateQualityScore]_vars

----------------------------------------------------------------------------
(* Properties *)

NumOutcomes(kinds) ==
    Cardinality({i \in 1..Len(obs.outcomes) : obs.outcomes[i] \in kinds})

QueriedIds == [i \in 1..Len(batch.companies) |-> batch.companies[i].id]

EvaluatorOrder ==
    <<"sec_filing", "fcf", "operating_income", "debt", "balance_sheet", "liquidity",
      "exchange", "news", "corporate_action">>

\* C1: when process_all_companies has returned, apply_all_filters was called
\* for every company the query returned, once each and in query order,
\* whatever earlier calls raised or returned.
C1_EveryCompanyAttempted ==
    pc = "done" => obs.attempted = QueriedIds

\* C2: the summary process_all_companies returns has the keys processed,
\* errors and total; total is the number of companies, processed the number
\* of calls that returned a non-empty result, errors the number of calls that
\* raised or returned an empty result, and processed + errors = total.
C2_SummaryCounts ==
    (pc = "done" /\ ~obs.query_failed) =>
        /\ DOMAIN Val(summary) = {"processed", "errors", "total"}
        /\ Val(summary).total = Len(db.companies)
        /\ Val(summary).processed = NumOutcomes({"result", "unsaved"})
        /\ Val(summary).errors = NumOutcomes({"empty", "raised"})
        /\ Val(summary).processed + Val(summary).errors = Val(summary).total

\* C3: an exception raised by any one of the nine evaluators stays inside
\* apply_all_filters: it never reaches the batch loop's handler, the
\* remaining evaluators run, and a result is returned for the company.
C3_EvaluatorFailureContained ==
    obs.raised # {} =>
        /\ pc # "except"
        /\ pc \in {"return", "loop", "done"} =>
               (obs.ran = EvaluatorOrder /\ ~IsNone(obs.returned))

\* the categories in the priority order of the aggregator, each with the
\* configuration key of its penalty
CategoryOrder ==
    <<[marker |-> SecFilingMarker, key |-> "sec_filing_penalty"],
      [marker |-> FcfMarker, key |-> "fcf_penalty"],
      [marker |-> OperatingLossMarker, key |-> "operating_loss_penalty"],
      [marker |-> HighDebtMarker, key |-> "high_debt_penalty"],
      [marker |-> NegativeEquityMarker, key |-> "negative_equity_penalty"],
      [marker |-> LowVolumeMarker, key |-> "low_volume_penalty"],
      [marker |-> OtcMarker, key |-> "otc_penalty"],
      [marker |-> NewsMarker, key |-> "news_red_flag_penalty"],
      [marker |-> CorporateActionMarker, key |-> "corporate_action_penalty"]>>

MatchingCategories(red_flag) ==
    {i \in 1..Len(CategoryOrder) : Contains(red_flag, CategoryOrder[i].marker)}

\* p(f): the penalty of the first category whose marker occurs in f, else 0
FirstCategoryPenalty(scoring_config, red_flag) ==
    IF MatchingCategories(red_flag) = {} THEN 0
    ELSE LET first == CHOOSE i \in MatchingCategories(red_flag) :
                          \A j \in MatchingCategories(red_flag) : i <= j
         IN  scoring_config[CategoryOrder[first].key]

RECURSIVE SumPenalties(_, _)
SumPenalties(scoring_config, red_flags) ==
    IF red_flags = <<>> THEN 0
    ELSE FirstCategoryPenalty(scoring_config, Head(red_flags))
         + SumPenalties(scoring_config, Tail(red_flags))

ExpectedScore(scoring_config, red_flags) ==
    Max(0, 100 + SumPenalties(scoring_config, red_flags))

\* C4 as claimed: a company whose result could not be written is counted in
\* the error counter of the batch, not in its processed counter.
C4_UnsavedCountedAsError ==
    /\ batch.error_count = NumOutcomes({"empty", "raised", "unsaved"})
    /\ batch.processed_count = NumOutcomes({"result"})

\* C4 as amended: when the write fails, apply_all_filters still returns the
\* result it built, with the score of its findings, and the batch counts the
\* company as processed; only empty results and exceptions count as errors.
C4_UnsavedReturnedAndProcessed ==
    /\ batch.processed_count = NumOutcomes({"result", "unsaved"})
    /\ batch.error_count = NumOutcomes({"empty", "raised"})
    /\ (pc = "return" /\ obs.write_failed) =>
           /\ obs.returned = Some(filter_results)
           /\ filter_results.quality_score =
                  ExpectedScore(config.scoring, filter_results.red_flags)

C4_Witness ==
    /\ pc = "loop"
    /\ obs.write_failed
    /\ obs.outcomes # <<>> /\ obs.outcomes[Len(obs.outcomes)] = "unsaved"
    /\ Val(obs.returned).red_flags # <<>>
    /\ batch.processed_count = 1 /\ batch.error_count = 0

\* C5: a returned result with an empty red-flag list has quality score 100
\* and is not disqualified.
C5_NoFlagsScore100 ==
    (~IsNone(obs.returned) /\ Val(obs.returned).red_flags = <<>>) =>
        (Val(obs.returned).quality_score = 100 /\ ~Val(obs.returned).disqualified)

C5_Witness ==
    /\ pc = "return"
    /\ ~IsNone(obs.returned)
    /\ Val(obs.returned).red_flags = <<>>
    /\ Val(obs.returned).quality_score = 100
    /\ obs.ran = EvaluatorOrder

\* C6: the score _calculate_quality_score returns is never negative, and it
\* is 0 whenever 100 plus the summed penalties is below 0.
C6_ScoreFloor ==
    pc = "update" =>
        /\ filter_results.quality_score >= 0
        /\ (100 + SumPenalties(config.scoring, filter_results.red_flags) < 0
                => filter_results.quality_score = 0)

C6_Witness ==
    /\ pc = "update"
    /\ 100 + SumPenalties(config.scoring, filter_results.red_flags) < 0
    /\ filter_results.quality_score = 0

\* C7: the score is max(0, 100 + the sum over the findings of p(f)), p(f)
\* being the penalty of the first category in priority order whose marker
\* occurs in f and 0 when none occurs: one penalty per finding at most.
C7_ScoreIsFirstCategorySum ==
    pc = "update" =>
        filter_results.quality_score = ExpectedScore(config.scoring, filter_results.red_flags)

C7_Witness ==
    /\ pc = "update"
    /\ \E i \in 1..Len(filter_results.red_flags) :
           Cardinality(MatchingCategories(filter_results.red_flags[i])) >= 2
    /\ \E i \in 1..Len(filter_results.red_flags) :
           MatchingCategories(filter_results.red_flags[i]) = {}
    /\ filter_results.quality_score > 0
    /\ filter_results.quality_score < 100

\* the required filing types that have no completed filing after the cutoff
\* in the filing store
StoreMissing(company_id) ==
    {t \in {"10-K", "10-Q", "8-K"} :
        ~\E r \in db.sec_filings[company_id] :
            /\ r.filing_type = t
            /\ r.download_status = "completed"
            /\ r.filing_date > Today - 18 * 30}

\* C8: from the filing-recency evaluator on, disqualified is true exactly
\* when that evaluator found a required filing type missing; before it has
\* run, and after every later evaluator and the aggregator, nothing else
\* sets or clears the verdict.
C8_OnlyFilingRecencyDisqualifies ==
    Truthy(filter_results) =>
        IF "missing_filings" \in DOMAIN filter_results.filter_details
        THEN /\ filter_results.disqualified
                    = (filter_results.filter_details.missing_filings # <<>>)
             /\ filter_results.disqualified
                    = (obs.lookup_failed \/ StoreMissing(filter_results.company_id) # {})
        ELSE ~filter_results.disqualified

C8_Witness ==
    /\ pc = "return"
    /\ Truthy(filter_results)
    /\ ~filter_results.disqualified
    /\ Len(filter_results.red_flags) >= 2
    /\ filter_results.quality_score < 100

\* the missing required types of a presence map, in the order 10-K, 10-Q, 8-K
NamedMissing(filing_status) ==
    (IF DictGet(filing_status, "10-K", FALSE) THEN <<>> ELSE <<"10-K">>)
    \o (IF DictGet(filing_status, "10-Q", FALSE) THEN <<>> ELSE <<"10-Q">>)
    \o (IF DictGet(filing_status, "8-K", FALSE) THEN <<>> ELSE <<"8-K">>)

\* C9: right after the filing-recency evaluator, the result holds exactly
\* one finding, naming the missing types in the order 10-K, 10-Q, 8-K, and
\* is disqualified, if at least one of these three is false in the presence
\* map; otherwise it holds no finding and is not disqualified.  DEF 14A has
\* no part in it.
C9_FilingFindingNamesMissing ==
    pc = "fcf" =>
        LET missing == NamedMissing(filter_results.filter_details.sec_filing_status)
        IN  IF missing # <<>>
            THEN /\ filter_results.red_flags =
                        <<SecFilingMarker \o <<":">>
                          \o Join(<<",">>, [i \in 1..Len(missing) |-> <<missing[i]>>])>>
                 /\ filter_results.disqualified
            ELSE /\ filter_results.red_flags = <<>>
                 /\ ~filter_results.disqualified

C9_Witness ==
    /\ pc = "fcf"
    /\ filter_results.filter_details.sec_filing_status = AllFalseFilingStatus
    /\ filter_results.disqualified
    /\ filter_results.red_flags =
           <<<<"No", "Recent", "SEC", "Filings", ":", "10-K", ",", "10-Q", ",", "8-K">>>>

\* C10: when the filing store has no row for the company, or the filing
\* lookup fails, the filing-recency evaluator does not disqualify.
C10_NoFilingDataNoVerdict ==
    (pc = "fcf" /\ (db.sec_filings[Snapshot.id] = {} \/ obs.lookup_failed)) =>
        ~filter_results.disqualified

----------------------------------------------------------------------------
(* Claims 11 to 20 *)

\* C11: when the snapshot of a company cannot be loaded, apply_all_filters
\* returns the empty result without entering any evaluator and without
\* writing; the batch loop then adds one to its error counter, leaves the
\* processed counter and the database alone and goes on to the next company.
C11_SnapshotNotLoaded ==
    /\ []((pc = "return" /\ IsNone(company_data)) =>
            /\ filter_results = NoResults
            /\ obs.ran = <<>>
            /\ ~obs.wrote
            /\ ~IsNone(obs.stored_before) =>
                   db.companies[obs.attempted[Len(obs.attempted)]] = Val(obs.stored_before))
    /\ [][(pc = "return" /\ IsNone(company_data)) =>
            /\ pc' = "loop"
            /\ batch'.error_count = batch.error_count + 1
            /\ batch'.processed_count = batch.processed_count
            /\ batch'.i = batch.i + 1
            /\ db' = db]_vars

C11_Witness ==
    /\ Len(obs.outcomes) = 1 /\ obs.outcomes[1] = "empty"
    /\ Len(obs.attempted) = 2
    /\ pc = "sec_filing"
    /\ batch.error_count = 1 /\ batch.processed_count = 0

\* C12: calls of apply_all_filters on the same company, with the stored
\* data and the configuration unchanged and nothing failing in between,
\* return the same result each time: the same findings in the same order,
\* the same score, the same disqualification and the same details, whatever
\* the earlier call wrote into the row of the company.
C12_RepeatedCallSameResult ==
    obs.faults = 0 =>
        \A i, j \in 1..Len(obs.calls) :
            obs.calls[i].company_id = obs.calls[j].company_id =>
                obs.calls[i].result = obs.calls[j].result

C12_Witness ==
    /\ obs.faults = 0
    /\ Len(obs.calls) = 2
    /\ obs.calls[1].company_id = obs.calls[2].company_id
    /\ obs.calls[1].wrote
    /\ obs.calls[2].result # NoResults
    /\ obs.calls[2].result.red_flags # <<>>
    /\ JsonLoads(Val(obs.stored_before).red_flags_list) = obs.calls[1].result.red_flags

\* C13: when a screening has written its result, the stored red-flag list,
\* disqualified flag and score of the company are those of the result just
\* built, and every finding of that result was appended by an evaluator of
\* this run: nothing the row held before is kept or merged.
C13_StoredIsReturned ==
    (pc = "return" /\ obs.wrote) =>
        LET row == db.companies[filter_results.company_id]
        IN  /\ JsonLoads(row.red_flags_list) = filter_results.red_flags
            /\ row.disqualified_flag = (IF filter_results.disqualified THEN 1 ELSE 0)
            /\ row.weschler_quality_score = filter_results.quality_score
            /\ Len(obs.producers) = Len(filter_results.red_flags)
            /\ filter_results.quality_score =
                   ExpectedScore(config.scoring, filter_results.red_flags)

C13_Witness ==
    /\ pc = "return" /\ obs.wrote
    /\ Len(obs.attempted) = 1
    /\ Val(obs.stored_before).disqualified_flag = 1
    /\ Val(obs.stored_before).weschler_quality_score = 75
    /\ ~filter_results.disqualified
    /\ filter_results.red_flags # <<>>
    /\ db.companies[1].disqualified_flag = 0

Range(f) == {f[i] : i \in DOMAIN f}

\* the row of a company without the columns its screening result is kept in
SnapshotColumns(row) ==
    [k \in DOMAIN row \ {"red_flags_list", "disqualified_flag", "weschler_quality_score"}
        |-> row[k]]

\* C14 as claimed: no step of a screening changes anything in the database
\* but the red-flag list, disqualified flag and score of the company being
\* screened, and no evaluator changes the loaded snapshot.
C14_OnlyResultColumnsWritten ==
    [][/\ db'.sec_filings = db.sec_filings
       /\ db'.financial_statements = db.financial_statements
       /\ db'.news = db.news
       /\ DOMAIN db'.companies = DOMAIN db.companies
       /\ \A id \in DOMAIN db.companies :
              /\ SnapshotColumns(db'.companies[id]) = SnapshotColumns(db.companies[id])
              /\ (db'.companies[id] # db.companies[id]) =>
                     (pc = "update" /\ id = filter_results.company_id)
       /\ (pc \in Range(EvaluatorOrder)) => company_data' = company_data]_vars

\* C14 as amended: the same, but the write also sets updated_at of that row.
C14_OnlyResultRowWritten ==
    [][/\ db'.sec_filings = db.sec_filings
       /\ db'.financial_statements = db.financial_statements
       /\ db'.news = db.news
       /\ DOMAIN db'.companies = DOMAIN db.companies
       /\ \A id \in DOMAIN db.companies :
              /\ [SnapshotColumns(db'.companies[id]) EXCEPT !.updated_at = 0]
                     = [SnapshotColumns(db.companies[id]) EXCEPT !.updated_at = 0]
              /\ (db'.companies[id] # db.companies[id]) =>
                     (pc = "update" /\ id = filter_results.company_id)
       /\ (pc \in Range(EvaluatorOrder)) => company_data' = company_data]_vars

C14_Witness ==
    /\ pc = "return" /\ obs.wrote
    /\ Len(db.companies) >= 2
    /\ filter_results.company_id = 2
    /\ filter_results.red_flags # <<>>
    /\ db.companies[2].updated_at = Today
    /\ db.companies[1].updated_at = Today
    /\ JsonLoads(db.companies[1].red_flags_list) # filter_results.red_flags

StartsWith(text, prefix) ==
    Len(text) >= Len(prefix) /\ SubSeq(text, 1, Len(prefix)) = prefix

\* the evaluator whose wording a finding has; the corporate-action evaluator
\* appends flag strings worded elsewhere
EvaluatorOfText(red_flag) ==
    IF StartsWith(red_flag, SecFilingMarker) THEN "sec_filing"
    ELSE IF StartsWith(red_flag, FcfMarker) \/ red_flag = AcceleratingFcfRedFlag THEN "fcf"
    ELSE IF StartsWith(red_flag, OperatingLossMarker) THEN "operating_income"
    ELSE IF StartsWith(red_flag, HighDebtMarker)
            \/ StartsWith(red_flag, <<"Rapid", "Debt", "Growth">>) THEN "debt"
    ELSE IF StartsWith(red_flag, NegativeEquityMarker) THEN "balance_sheet"
    ELSE IF StartsWith(red_flag, LowVolumeMarker) THEN "liquidity"
    ELSE IF StartsWith(red_flag, OtcMarker) THEN "exchange"
    ELSE IF StartsWith(red_flag, NewsMarker) THEN "news"
    ELSE "corporate_action"

EvaluatorIndex(name) ==
    CHOOSE i \in 1..Len(EvaluatorOrder) : EvaluatorOrder[i] = name

\* C15: in every result, the findings stand in the order in which the
\* evaluators ran: the finding at each position is one of the evaluator
\* that appended at that moment, no finding of a later evaluator precedes
\* one of an earlier evaluator, and every step of a screening keeps the
\* findings it found as a prefix of the ones it leaves.
C15_FindingsInEvaluatorOrder ==
    /\ [](filter_results # NoResults =>
            /\ Len(obs.producers) = Len(filter_results.red_flags)
            /\ \A i \in 1..Len(filter_results.red_flags) :
                   obs.producers[i] = EvaluatorOfText(filter_results.red_flags[i])
            /\ \A i, j \in 1..Len(filter_results.red_flags) :
                   i < j => EvaluatorIndex(EvaluatorOfText(filter_results.red_flags[i]))
                            <= EvaluatorIndex(EvaluatorOfText(filter_results.red_flags[j])))
    /\ [][(pc \in Range(EvaluatorOrder) \cup {"score", "update", "return"}
           /\ filter_results # NoResults) =>
              StartsWith(filter_results'.red_flags, filter_results.red_flags)]_vars

C15_Witness ==
    /\ pc = "return"
    /\ filter_results # NoResults
    /\ Len(filter_results.red_flags) >= 5
    /\ obs.producers[1] = "sec_filing"
    /\ obs.producers[Len(obs.producers)] = "news"
    /\ Cardinality(Range(obs.producers)) >= 5

Confirmed(cd) == cd.has_recent_splits /\ cd.split_count > 0

PotentialOnly(cd) == ~Confirmed(cd) /\ cd.potential_action_detected

\* C16: for a confirmed corporate action and no other finding, the score is
\* 100 plus the configured corporate-action penalty, taken once, whatever
\* the number of splits and of flag strings supplied.
C16_ConfirmedFullPenaltyOnce ==
    (pc = "update" /\ "corporate_action" \notin obs.raised /\ Confirmed(Snapshot)) =>
        filter_results.quality_score =
            Max(0, 100 + config.scoring.corporate_action_penalty)

\* C17: for a potential-only detection and no other finding, the score is
\* 100 plus the penalty the evaluator computed for this evaluation, which is
\* half the configured one: -2 when the configured penalty is -5.
C17_PotentialHalfPenalty ==
    (pc = "update" /\ "corporate_action" \notin obs.raised /\ PotentialOnly(Snapshot)) =>
        /\ filter_results.quality_score =
               Max(0, 100 + filter_results.corporate_action_penalty)
        /\ config.scoring.corporate_action_penalty = -5 =>
               filter_results.corporate_action_penalty = -2

\* the findings of the current result that the evaluator `name` appended
FindingsOf(name) ==
    SelectSeq([i \in 1..Len(filter_results.red_flags) |->
                  [producer |-> obs.producers[i], text |-> filter_results.red_flags[i]]],
              LAMBDA f : f.producer = name)

\* C18: once the debt evaluator has run without raising, the result holds a
\* High Debt Burden finding if and only if the snapshot has a net-debt/EBITDA
\* ratio and it is strictly greater than the configured maximum; with the
\* default configuration, a ratio of 6.2 and no finding of another evaluator,
\* the findings are exactly "High Debt Burden: Net Debt/EBITDA = 6.20" and
\* the score is 85.
C18_HighDebtFinding ==
    (filter_results # NoResults /\ "debt" \in Range(obs.ran) /\ "debt" \notin obs.raised) =>
        LET ratio == Snapshot.net_debt_ebitda
            high == SelectSeq(FindingsOf("debt"), LAMBDA f : StartsWith(f.text, HighDebtMarker))
        IN  /\ Len(high) <= 1
            /\ (Len(high) = 1) <=>
                   (~IsNone(ratio) /\ Val(ratio) > config.filter.max_debt_to_ebitda)
            /\ (/\ pc = "return"
                /\ config.scoring = DefaultScoringConfig
                /\ config.filter = DefaultFilterConfig
                /\ ratio = Some(620)
                /\ Range(obs.producers) \subseteq {"debt"}) =>
                   /\ filter_results.red_flags =
                          <<<<"High", "Debt", "Burden", ":", "Net", "Debt/EBITDA", "=",
                              "6", ".", "2", "0">>>>
                   /\ filter_results.quality_score = 85

C18_Witness ==
    /\ pc = "return"
    /\ filter_results # NoResults
    /\ config.scoring = DefaultScoringConfig
    /\ Snapshot.net_debt_ebitda = Some(620)
    /\ filter_results.red_flags =
           <<<<"High", "Debt", "Burden", ":", "Net", "Debt/EBITDA", "=", "6", ".", "2", "0">>>>
    /\ filter_results.quality_score = 85

\* the configuration key of the penalty of each evaluator's category
PenaltyKeyOf(name) ==
    CASE name = "sec_filing" -> "sec_filing_penalty"
      [] name = "fcf" -> "fcf_penalty"
      [] name = "operating_income" -> "operating_loss_penalty"
      [] name = "debt" -> "high_debt_penalty"
      [] name = "balance_sheet" -> "negative_equity_penalty"
      [] name = "liquidity" -> "low_volume_penalty"
      [] name = "exchange" -> "otc_penalty"
      [] name = "news" -> "news_red_flag_penalty"
      [] name = "corporate_action" -> "corporate_action_penalty"

\* C19: the aggregator charges every finding of a result the penalty of the
\* category of the evaluator that appended it, whatever text it embeds.
C19_FindingChargedToProducer ==
    filter_results # NoResults =>
        \A i \in 1..Len(filter_results.red_flags) :
            PenaltyFor(config.scoring, filter_results.red_flags[i])
                = config.scoring[PenaltyKeyOf(obs.producers[i])]

\* the fiscal years of cash-flow statements the FCF evaluator examines: the
\* latest five stored, those whose statement parses
ExaminedFcfYears(company_id) ==
    LET table == db.financial_statements[company_id].cash_flow
        latest == {y \in DOMAIN table : Cardinality({z \in DOMAIN table : z > y}) < 5}
    IN  {y \in latest : table[y].valid}

NegativeFcfYears(company_id) ==
    LET table == db.financial_statements[company_id].cash_flow
    IN  {y \in ExaminedFcfYears(company_id) : extract_fcf_from_statement(table[y].obj) < 0}

\* C20: once the FCF evaluator has run without raising, the result holds the
\* finding "Persistent Negative FCF: N/total years" if and only if N, the
\* number of examined years with negative FCF, is at least the configured
\* threshold and total, the number of years examined, is at least 5; with 5
\* of 5 negative the text is "Persistent Negative FCF: 5/5 years".
C20_PersistentNegativeFcf ==
    (filter_results # NoResults /\ "fcf" \in Range(obs.ran) /\ "fcf" \notin obs.raised) =>
        LET n == Cardinality(NegativeFcfYears(Snapshot.id))
            total == Cardinality(ExaminedFcfYears(Snapshot.id))
            persistent == SelectSeq(FindingsOf("fcf"), LAMBDA f : StartsWith(f.text, FcfMarker))
        IN  /\ Len(persistent) <= 1
            /\ (Len(persistent) = 1) <=>
                   (n >= config.filter.fcf_negative_years_threshold /\ total >= 5)
            /\ Len(persistent) = 1 =>
                   persistent[1].text =
                       <<"Persistent", "Negative", "FCF", ":", ToString(n), "/",
                         ToString(total), "years">>
            /\ (n = 5 /\ total = 5) =>
                   persistent[1].text =
                       <<"Persistent", "Negative", "FCF", ":", "5", "/", "5", "years">>

C20_Witness ==
    /\ pc = "operating_income"
    /\ "fcf" \notin obs.raised
    /\ Cardinality(NegativeFcfYears(Snapshot.id)) = 5
    /\ filter_results.red_flags =
           <<<<"Persistent", "Negative", "FCF", ":", "5", "/", "5", "years">>>>

----------------------------------------------------------------------------
(* Claims 21 to 30 *)

\* the FCF the extract of the stored cash-flow statement of a fiscal year gives
FcfOfYear(company_id, y) ==
    extract_fcf_from_statement(db.financial_statements[company_id].cash_flow[y].obj)

\* the three most recent fiscal years among the examined ones
RecentFcfYears(company_id) ==
    {y \in ExaminedFcfYears(company_id) :
        Cardinality({z \in ExaminedFcfYears(company_id) : z > y}) < 3}

\* C21: once the FCF evaluator has run without raising, the result holds the
\* finding "Accelerating Negative FCF Trend" if and only if at least 3 years
\* of FCF history were examined, the 3 most recent fiscal years are all
\* negative and the FCF of the most recent year is strictly lower than the
\* FCF of the oldest of those 3, whether or not the persistent-negative
\* finding is present.
C21_AcceleratingRecentYears ==
    (filter_results # NoResults /\ "fcf" \in Range(obs.ran) /\ "fcf" \notin obs.raised) =>
        LET id == Snapshot.id
            recent == RecentFcfYears(id)
            newest == CHOOSE y \in recent : \A z \in recent : z <= y
            oldest == CHOOSE y \in recent : \A z \in recent : y <= z
            accelerating ==
                SelectSeq(FindingsOf("fcf"), LAMBDA f : f.text = AcceleratingFcfRedFlag)
        IN  /\ Len(accelerating) <= 1
            /\ (Len(accelerating) = 1) <=>
                   /\ Cardinality(ExaminedFcfYears(id)) >= 3
                   /\ \A y \in recent : FcfOfYear(id, y) < 0
                   /\ FcfOfYear(id, newest) < FcfOfYear(id, oldest)

\* the fiscal years, among the latest five stored statements of a kind that
\* parse, whose statement holds one of the line items
ItemYears(table, items) ==
    LET latest == {y \in DOMAIN table : Cardinality({z \in DOMAIN table : z > y}) < 5}
    IN  {y \in latest : table[y].valid
                        /\ \E i \in 1..Len(items) : items[i] \in DOMAIN table[y].obj}

NegativeItemYears(table, items) ==
    {y \in ItemYears(table, items) : ExtractFirst(items, table[y].obj) < 0}

\* C22: a fiscal year whose stored statement has no free-cash-flow
\* (operating-income) line item is left out of the negative-year count and
\* of the total of the consistency rule: the count and the total the
\* evaluator records, and the persistent finding, are those of the years
\* that have the line item.
C22_MissingItemYearsExcluded ==
    /\ (filter_results # NoResults /\ "fcf" \in Range(obs.ran) /\ "fcf" \notin obs.raised) =>
        LET table == db.financial_statements[Snapshot.id].cash_flow
            n == Cardinality(NegativeItemYears(table, fcf_items))
            total == Cardinality(ItemYears(table, fcf_items))
            persistent == SelectSeq(FindingsOf("fcf"), LAMBDA f : StartsWith(f.text, FcfMarker))
        IN  /\ (Len(persistent) = 1) <=>
                   (n >= config.filter.fcf_negative_years_threshold /\ total >= 5)
            /\ "fcf_analysis" \in DOMAIN filter_results.filter_details =>
                   /\ filter_results.filter_details.fcf_analysis.total_years = total
                   /\ filter_results.filter_details.fcf_analysis.negative_years = n
    /\ (/\ filter_results # NoResults
        /\ "operating_income" \in Range(obs.ran)
        /\ "operating_income" \notin obs.raised) =>
        LET table == db.financial_statements[Snapshot.id].income
            n == Cardinality(NegativeItemYears(table, operating_items))
            total == Cardinality(ItemYears(table, operating_items))
            persistent == SelectSeq(FindingsOf("operating_income"),
                                    LAMBDA f : StartsWith(f.text, OperatingLossMarker))
        IN  /\ (Len(persistent) = 1) <=>
                   (n >= config.filter.operating_income_negative_years_threshold
                    /\ total >= 5)
            /\ "operating_income_analysis" \in DOMAIN filter_results.filter_details =>
                   /\ filter_results.filter_details.operating_income_analysis.total_years
                          = total
                   /\ filter_results.filter_details.operating_income_analysis.negative_years
                          = n

\* the snapshot has no value for the field: SQL NULL, or no such key
Absent(field) == IsNone(DictGet(Snapshot, field, None))

SameSeries(company_id) ==
    LET fcf_data == get_historical_fcf_data(db.financial_statements[company_id])
        operating_data ==
            get_historical_operating_income_data(db.financial_statements[company_id])
    IN  /\ Len(fcf_data) = Len(operating_data)
        /\ \A i \in 1..Len(fcf_data) :
               /\ fcf_data[i].fiscal_year = operating_data[i].fiscal_year
               /\ fcf_data[i].fcf = operating_data[i].operating_income

\* both consistency evaluators have run on the same series with equal thresholds
BothConsistencyEvaluatorsRan ==
    /\ filter_results # NoResults
    /\ {"fcf", "operating_income"} \subseteq Range(obs.ran)
    /\ obs.raised \cap {"fcf", "operating_income"} = {}
    /\ SameSeries(Snapshot.id)
    /\ config.filter.fcf_negative_years_threshold
           = config.filter.operating_income_negative_years_threshold

\* the part of a persistent finding after its marker: ": N/total years"
AfterMarker(text, marker) == SubSeq(text, Len(marker) + 1, Len(text))

PersistentFcfFindings ==
    SelectSeq(FindingsOf("fcf"), LAMBDA f : StartsWith(f.text, FcfMarker))

AcceleratingFcfFindings ==
    SelectSeq(FindingsOf("fcf"), LAMBDA f : f.text = AcceleratingFcfRedFlag)

PersistentOperatingFindings ==
    SelectSeq(FindingsOf("operating_income"),
              LAMBDA f : StartsWith(f.text, OperatingLossMarker))

\* C24 as claimed: on the same series with equal thresholds, the
\* operating-income evaluator emits a finding for exactly the sub-rules for
\* which the FCF evaluator emits one, the persistent-negative one and the
\* accelerating-trend one, so both emit the same number of findings.
C24_SameSubRulesFire ==
    BothConsistencyEvaluatorsRan =>
        /\ (Len(PersistentOperatingFindings) = 1) <=> (Len(PersistentFcfFindings) = 1)
        /\ (Len(FindingsOf("operating_income")) - Len(PersistentOperatingFindings) = 1)
               <=> (Len(AcceleratingFcfFindings) = 1)
        /\ Len(FindingsOf("operating_income")) = Len(FindingsOf("fcf"))

\* C24 as amended: the operating-income evaluator has the persistent-negative
\* sub-rule only.  On the same series with equal thresholds it emits
\* "Persistent Operating Losses: N/total years" exactly when the FCF
\* evaluator emits its persistent finding, with the same N and total, and it
\* emits nothing else: it has one finding fewer than the FCF evaluator
\* whenever that one emits the accelerating-trend finding.
C24_SamePersistentSubRuleOnly ==
    BothConsistencyEvaluatorsRan =>
        /\ (Len(PersistentOperatingFindings) = 1) <=> (Len(PersistentFcfFindings) = 1)
        /\ Len(PersistentOperatingFindings) = 1 =>
               AfterMarker(PersistentOperatingFindings[1].text, OperatingLossMarker)
                   = AfterMarker(PersistentFcfFindings[1].text, FcfMarker)
        /\ FindingsOf("operating_income") = PersistentOperatingFindings
        /\ Len(FindingsOf("operating_income")) <= 1
        /\ Len(FindingsOf("operating_income"))
               = Len(FindingsOf("fcf")) - Len(AcceleratingFcfFindings)

C24_Witness ==
    /\ pc = "debt"
    /\ BothConsistencyEvaluatorsRan
    /\ Len(PersistentFcfFindings) = 1
    /\ Len(AcceleratingFcfFindings) = 1
    /\ Len(FindingsOf("fcf")) = 2
    /\ [i \in 1..Len(FindingsOf("operating_income")) |-> FindingsOf("operating_income")[i].text]
           = <<<<"Persistent", "Operating", "Losses", ":", "4", "/", "5", "years">>>>

\* the totals of the two latest balance sheets and income statements as
\* stored, None with fewer than two balance sheets or one that does not parse
StoredDebtGrowth(statements) ==
    LET rows == OrderDescLimit(statements.balance_sheet, 2)
        inc == OrderDescLimit(statements.income, 2)
        revenue_known == Len(inc) = 2 /\ inc[1].statement_data.valid
                         /\ inc[2].statement_data.valid
    IN  IF Len(rows) < 2 \/ ~rows[1].statement_data.valid \/ ~rows[2].statement_data.valid
        THEN None
        ELSE Some([current_debt |-> extract_total_debt_from_statement(rows[1].statement_data.obj),
                   previous_debt |-> extract_total_debt_from_statement(rows[2].statement_data.obj),
                   current_revenue |->
                       IF revenue_known
                       THEN extract_revenue_from_statement(inc[1].statement_data.obj) ELSE 0,
                   previous_revenue |->
                       IF revenue_known
                       THEN extract_revenue_from_statement(inc[2].statement_data.obj) ELSE 0])

\* C25: once the debt evaluator has run without raising, the result holds a
\* "Rapid Debt Growth" finding if and only if two balance-sheet years are
\* stored, total debt grew by more than 50% from the earlier to the later
\* and revenue growth is less than half of that growth, whether or not the
\* "High Debt Burden" finding is present.
C25_RapidDebtGrowthFinding ==
    (filter_results # NoResults /\ "debt" \in Range(obs.ran) /\ "debt" \notin obs.raised) =>
        LET stored == StoredDebtGrowth(db.financial_statements[Snapshot.id])
            rapid == SelectSeq(FindingsOf("debt"),
                               LAMBDA f : StartsWith(f.text, <<"Rapid", "Debt", "Growth">>))
        IN  (Len(rapid) = 1) <=> (~IsNone(stored) /\ RapidDebtGrowth(Val(stored)))

\* the days of the news items of a company whose keyword field is neither
\* NULL nor the text '[]'
TaggedDays(news_table) ==
    {d \in DOMAIN news_table :
        /\ news_table[d].red_flag_keywords # None
        /\ ~(Val(news_table[d].red_flag_keywords).valid
             /\ Val(news_table[d].red_flag_keywords).obj = <<>>)}

\* the `limit` most recently published of them
LatestTaggedDays(news_table, limit) ==
    {d \in TaggedDays(news_table) :
        Cardinality({e \in TaggedDays(news_table) : e > d}) < limit}

\* one finding text per keyword of the item of day d, in keyword order; an
\* item whose keyword text is not JSON gives none
NewsTextsOfDay(news_table, d) ==
    LET row == news_table[d]
        keywords == IF Val(row.red_flag_keywords).valid
                    THEN Val(row.red_flag_keywords).obj ELSE <<>>
    IN  [k \in 1..Len(keywords) |->
            <<"News", "Red", "Flag", "-">> \o keywords[k] \o <<":">>
            \o SubSeq(row.headline, 1, IF Len(row.headline) > 100 THEN 100
                                       ELSE Len(row.headline))
            \o <<"...">>]

\* the finding texts of the items of the given days, latest day first
NewsTextsLatestFirst(news_table, days) ==
    LET ascending == SortedSeq(days)
    IN  Flatten([i \in 1..Len(ascending) |->
                    NewsTextsOfDay(news_table, ascending[Len(ascending) + 1 - i])])

NewsFindingTexts ==
    [i \in 1..Len(FindingsOf("news")) |-> FindingsOf("news")[i].text]

NewsEvaluatorRan ==
    filter_results # NoResults /\ "news" \in Range(obs.ran) /\ "news" \notin obs.raised

\* C26 as claimed: the news evaluator emits one finding per (keyword,
\* headline) pair of all the keyword-tagged news items of the company,
\* however many there are, latest first, each with the headline cut to 100
\* characters.
C26_AllTaggedNews ==
    NewsEvaluatorRan =>
        NewsFindingTexts =
            NewsTextsLatestFirst(db.news[Snapshot.id], TaggedDays(db.news[Snapshot.id]))

\* C26 as amended: the same, of the 10 most recently published keyword-tagged
\* items only; older items give no finding.
C26_TenLatestTaggedNews ==
    NewsEvaluatorRan =>
        NewsFindingTexts =
            NewsTextsLatestFirst(db.news[Snapshot.id],
                                 LatestTaggedDays(db.news[Snapshot.id], 10))

C26_Witness ==
    /\ pc = "corporate_action"
    /\ NewsEvaluatorRan
    /\ Cardinality(TaggedDays(db.news[Snapshot.id])) > 10
    /\ Len(NewsFindingTexts) = 20
    /\ Len(NewsFindingTexts[1]) = 107
    /\ NewsFindingTexts[1][106] = "x"
    /\ NewsFindingTexts[20] = <<"News", "Red", "Flag", "-", "lawsuit", ":", "Story", "2", "...">>

\* C27: when the corporate-action data is neither confirmed nor potential,
\* has_recent_splits with a split count of 0 included, the corporate-action
\* evaluator records a corporate-action penalty of 0 in the result and adds
\* no finding.
C27_NoActionZeroPenalty ==
    (/\ "corporate_action" \in Range(obs.ran)
     /\ "corporate_action" \notin obs.raised
     /\ ~Confirmed(Snapshot)
     /\ ~Snapshot.potential_action_detected) =>
        /\ "corporate_action_penalty" \in DOMAIN filter_results
        /\ filter_results.corporate_action_penalty = 0
        /\ filter_results.red_flags = <<>>

NonPositivePenalties(scoring_config) ==
    \A k \in DOMAIN scoring_config : scoring_config[k] <= 0

\* C28: whenever every configured penalty is a non-positive integer, the
\* score the aggregator gives lies in 0..100, whatever the number and the
\* categories of the findings.
C28_ScoreBetween0And100 ==
    (pc = "update" /\ NonPositivePenalties(config.scoring)) =>
        filter_results.quality_score \in 0..100

C28_Witness ==
    /\ pc = "update"
    /\ NonPositivePenalties(config.scoring)
    /\ Len(filter_results.red_flags) >= 3
    /\ Cardinality(UNION {MatchingCategories(filter_results.red_flags[i]) :
                              i \in 1..Len(filter_results.red_flags)}) >= 3
    /\ filter_results.quality_score \in 1..99

\* C29: while a scoped block of the shared DatabaseManager is running, the
\* connection it opened is open and is the one the handle's cursor works
\* on, and the connections opened by the blocks around it are open too;
\* when the outermost block has ended, every connection that was opened is
\* closed.  This holds also when a scoped operation calls another one.
C29_ScopedConnectionOpenThenClosed ==
    /\ db_manager.stack # <<>> =>
           /\ db_manager.connection = TopBlock.connection
           /\ CursorUsable(db_manager)
           /\ \A i \in 1..Len(db_manager.stack) :
                  db_manager.opened[db_manager.stack[i].connection]
    /\ db_manager.stack = <<>> =>
           \A i \in 1..Len(db_manager.opened) : ~db_manager.opened[i]

\* C30: for every service, the number of wait_if_needed calls that return
\* within any one-minute window (a call counts at the time it returns,
\* after any wait) never exceeds the per-minute limit of that service.
C30_ReturnsWithinLimit ==
    \A service \in Services :
        LET times == rate_limiter.returned[service]
        IN  \A i \in 1..Len(times) :
                Cardinality({j \in 1..Len(times) :
                                /\ times[j] > times[i] - Minute
                                /\ times[j] <= times[i]})
                    <= get_limit_for_service(rate_limiter, service)

====
